---- MODULE Spec2Model ----
(***************************************************************************)
(* State-machine model of logistik-ai: the driver agent's parse/dispatch   *)
(* loop (app/agents/driver_agent.py), the Telegram chat handlers           *)
(* (app/bot.py) and the REST endpoints (app/main.py) acting on the         *)
(* SQLAlchemy store (app/models.py).                                       *)
(*                                                                         *)
(* Text is a sequence of tokens.  A token is either one character that the *)
(* parser looks at (space, newline, comma, equals sign), one of the two    *)
(* markers "Tool:" and "Parameters:" (neither can overlap itself or the    *)
(* other, so an occurrence is unambiguous), or a word that contains none   *)
(* of these.  Python's None is the text NoneVal, a user id 0 is NULL.      *)
(***************************************************************************)
EXTENDS Integers, Sequences, FiniteSets, TLC

VARIABLES db, user_data, last, steps, probe, agent, requests

vars == <<db, user_data, last, steps, probe, agent, requests>>

(***************************************************************************)
(* Bounds of the model.                                                    *)
(***************************************************************************)
MaxSteps == 3
MaxTrips == 2
MaxTextLen == 5
MaxChars == 3
MaxPairs == 2
MaxUsers == 5
MaxTurns == 5

(***************************************************************************)
(* Tokens.                                                                 *)
(***************************************************************************)
SP == " "
NL == "\n"
COMMA == ","
EQ == "="
TOOL == "Tool:"
PARAMETERS == "Parameters:"
NoneVal == <<"None">>

(***************************************************************************)
(* schemas.py: the enumerations.                                           *)
(***************************************************************************)
TripStatus ==
    {"assigned", "at_pickup", "loading", "in_transit", "delayed",
     "issue_reported", "at_destination", "unloading", "completed"}

UserRole == {"driver", "manager", "shipper", "consignee"}

(***************************************************************************)
(* Python string operations used by process_message.                       *)
(***************************************************************************)
IsSpace(c) == c \in {SP, NL}

Contains(s, tok) == \E i \in 1..Len(s) : s[i] = tok

RECURSIVE LStrip(_)
LStrip(s) ==
    IF s # <<>> /\ IsSpace(Head(s)) THEN LStrip(Tail(s)) ELSE s

RECURSIVE RStrip(_)
RStrip(s) ==
    IF s # <<>> /\ IsSpace(s[Len(s)]) THEN RStrip(SubSeq(s, 1, Len(s) - 1)) ELSE s

Strip(s) == RStrip(LStrip(s))

FirstIndex(s, tok) ==
    CHOOSE i \in 1..Len(s) : s[i] = tok /\ \A j \in 1..(i - 1) : s[j] # tok

RECURSIVE Split(_, _)
Split(s, sep) ==
    IF ~Contains(s, sep)
    THEN <<s>>
    ELSE LET i == FirstIndex(s, sep)
         IN  <<SubSeq(s, 1, i - 1)>> \o Split(SubSeq(s, i + 1, Len(s)), sep)

\* line.startswith(tok) written as: tok in line.
StartsWithAnywhere(s, tok) == Contains(s, tok)

StartsWith(s, tok) == Len(s) >= 1 /\ s[1] = tok

Replace(s, tok) == SelectSeq(s, LAMBDA c : c # tok)

\* next((line for line in lines if line.startswith(tok)), None)
HasLine(lines, tok) == \E i \in 1..Len(lines) : StartsWith(lines[i], tok)

FirstLine(lines, tok) ==
    lines[CHOOSE i \in 1..Len(lines) :
             /\ StartsWith(lines[i], tok)
             /\ \A j \in 1..(i - 1) : ~StartsWith(lines[j], tok)]

(***************************************************************************)
(* process_message, lines 110-129: the response parser.                    *)
(***************************************************************************)
EmptyParams == [k \in {} |-> <<>>]

SetParam(params, key, value) ==
    [k \in (DOMAIN params) \cup {key} |-> IF k = key THEN value ELSE params[k]]

\* ParseParams without key.strip().
RECURSIVE ParseParamsKeepSpaces(_, _)
ParseParamsKeepSpaces(parts, params) ==
    IF parts = <<>>
    THEN params
    ELSE LET param == Head(parts)
         IN  IF Contains(param, EQ)
             THEN LET i == FirstIndex(param, EQ)
                      key == SubSeq(param, 1, i - 1)
                      value == Strip(SubSeq(param, i + 1, Len(param)))
                  IN  ParseParamsKeepSpaces(Tail(parts), SetParam(params, key, value))
             ELSE ParseParamsKeepSpaces(Tail(parts), params)

RECURSIVE ParseParams(_, _)
ParseParams(parts, params) ==
    IF parts = <<>>
    THEN params
    ELSE LET param == Head(parts)
         IN  IF Contains(param, EQ)
             THEN LET i == FirstIndex(param, EQ)
                      key == Strip(SubSeq(param, 1, i - 1))
                      value == Strip(SubSeq(param, i + 1, Len(param)))
                  IN  ParseParams(Tail(parts), SetParam(params, key, value))
             ELSE ParseParams(Tail(parts), params)

Lines(response_content) == Split(Strip(response_content), NL)

IsToolCall(response_content) ==
    /\ Contains(response_content, TOOL)
    /\ HasLine(Lines(response_content), TOOL)
    /\ HasLine(Lines(response_content), PARAMETERS)

ParseResponse(response_content) ==
    IF IsToolCall(response_content)
    THEN LET lines == Lines(response_content)
             tool_name == Strip(Replace(FirstLine(lines, TOOL), TOOL))
             params_str == Strip(Replace(FirstLine(lines, PARAMETERS), PARAMETERS))
         IN  [tag |-> "ToolCall",
              name |-> tool_name,
              params |-> ParseParams(Split(params_str, COMMA), EmptyParams)]
    ELSE [tag |-> "PlainText", name |-> <<>>, params |-> EmptyParams]

\* The replies the language model gives in the turns of the model.
ToolCallText(name, params_str) ==
    <<TOOL, SP, name, NL, PARAMETERS, SP>> \o params_str

Replies ==
    {ToolCallText("update_trip_status",
                  <<"status", EQ, "at_pickup", COMMA, SP, "notes", EQ, "arrived">>),
     ToolCallText("update_trip_status", <<"status", EQ, "completed">>),
     ToolCallText("update_trip_status", <<"status", EQ, "teleporting">>),
     ToolCallText("update_trip_status", <<"status", EQ, "teleporting", COMMA, "speed", EQ, "max">>),
     ToolCallText("update_trip_status", <<"notes", EQ, "arrived">>),
     ToolCallText("report_issue", <<"description", EQ, "flat", SP, "tire">>),
     ToolCallText("Update_Trip_Status", <<"status", EQ, "loading">>),
     ToolCallText("get_current_trip", <<>>),
     ToolCallText("update_location",
                  <<"latitude", EQ, "abc", COMMA, SP, "longitude", EQ, "12.5">>),
     <<SP>> \o ToolCallText("get_trip_history", <<>>),
     <<"I", SP, "will", SP, "use", SP, TOOL, SP, "report_issue">>,
     <<"You", SP, "are", SP, "on", SP, "schedule.">>}

\* The replies that ask for each of the TripStatus values in turn.
StatusReplies ==
    {ToolCallText("update_trip_status", <<"status", EQ, status>>) : status \in TripStatus}

\* ParseResponse, tabulated once for the replies above.
ParsedReplies ==
    [response_content \in Replies \cup StatusReplies \cup
                          {ToolCallText("check_weather", <<>>)}
        |-> ParseResponse(response_content)]

Parsed(response_content) ==
    IF response_content \in DOMAIN ParsedReplies
    THEN ParsedReplies[response_content]
    ELSE ParseResponse(response_content)

(***************************************************************************)
(* models.py: the store.  A row's id is its index in its table, so the     *)
(* order of a table is also its created_at order.                          *)
(***************************************************************************)
Trip(driver_id, manager_id, shipper_id, consignee_id, status) ==
    [driver_id |-> driver_id, manager_id |-> manager_id,
     shipper_id |-> shipper_id, consignee_id |-> consignee_id,
     status |-> status]

StatusUpdate(trip_id, user_id, status, notes) ==
    [trip_id |-> trip_id, user_id |-> user_id, status |-> status, notes |-> notes]

Issue(trip_id, reported_by_id, description, status) ==
    [trip_id |-> trip_id, reported_by_id |-> reported_by_id,
     description |-> description, status |-> status, resolved_at |-> FALSE]

Location(trip_id, latitude, longitude) ==
    [trip_id |-> trip_id, latitude |-> latitude, longitude |-> longitude]

Notification(user_id, trip_id, message) ==
    [user_id |-> user_id, trip_id |-> trip_id, message |-> message]

TripNo(trip_id) == <<"Trip #", ToString(trip_id)>>

\* scripts/init_db.py: the rows create_test_data() commits.
create_test_data ==
    [users |-> <<"driver", "manager", "shipper", "consignee">>,
     trips |-> <<Trip(1, 2, 3, 4, "assigned")>>,
     status_updates |->
         <<StatusUpdate(1, 1, "assigned", <<"Trip assigned to driver">>)>>,
     locations |-> [i \in 1..10 |-> Location(1, <<"lat">>, <<"lng">>)],
     issues |-> <<Issue(1, 1, <<"Traffic delay on highway">>, "open")>>,
     notifications |->
         [i \in 1..3 |->
             Notification(i + 1, 1, <<"Driver has been assigned to ">> \o TripNo(1))]]

Max(S) == CHOOSE x \in S : \A y \in S : y <= x

\* db.query(Trip).filter(Trip.id == trip_id).first(); 0 is "no row".
TripById(d, trip_id) == IF trip_id \in 1..Len(d.trips) THEN trip_id ELSE 0

\* The status column of a Trip that holds no value (NULL).
NullStatus == "NULL"

\* The query every driver tool and chat handler starts with: the driver's
\* most recently created trip among those that are not completed.  The
\* filter Trip.status != 'completed' is not true of a row whose status is
\* NULL, so such a row is not selected either.
ActiveTrip(d, driver_id) ==
    LET active == {t \in 1..Len(d.trips) :
                      /\ d.trips[t].driver_id = driver_id
                      /\ d.trips[t].status \notin {"completed", NullStatus}}
    IN  IF active = {} THEN 0 ELSE Max(active)

SetTripStatus(d, trip_id, status) ==
    [d EXCEPT !.trips[trip_id].status = status]

AddStatusUpdate(d, row) ==
    [d EXCEPT !.status_updates = Append(@, row)]

AddIssue(d, row) == [d EXCEPT !.issues = Append(@, row)]

\* A store that keeps only the latest position: the new row overwrites the
\* last one.
OverwriteLastLocation(d, row) ==
    [d EXCEPT !.locations = Append(SubSeq(@, 1, Len(@) - 1), row)]

AddLocation(d, row) == [d EXCEPT !.locations = Append(@, row)]

AddNotification(d, row) == [d EXCEPT !.notifications = Append(@, row)]

(***************************************************************************)
(* driver_agent.py: the tool handlers.  A handler returns the store it     *)
(* leaves, its result text and whether it raised.  commit_ok is the        *)
(* store's answer to db.commit(): a rejected commit raises and none of the *)
(* session's pending writes is stored.                                     *)
(***************************************************************************)
Returned(d, text) == [db |-> d, result |-> text, raised |-> FALSE]

Raised(d) == [db |-> d, result |-> <<>>, raised |-> TRUE]

\* A store in which the writes of a rejected commit stay.
CommitKeepingWrites(before, after, text, commit_ok) ==
    IF commit_ok THEN Returned(after, text) ELSE Raised(after)

Commit(before, after, text, commit_ok) ==
    IF commit_ok THEN Returned(after, text) ELSE Raised(before)

IsTripStatus(status) == Len(status) = 1 /\ status[1] \in TripStatus

_get_current_trip(d, driver_id) ==
    LET trip == ActiveTrip(d, driver_id)
    IN  IF trip = 0
        THEN Returned(d, <<"You don't have any active trips at the moment.">>)
        ELSE Returned(d, TripNo(trip) \o <<"- Status: ", d.trips[trip].status>>)

InvalidStatus(status) ==
    <<"Invalid status: ">> \o status \o <<". Available statuses: ...">>

NoActiveTripsToUpdate == <<"You don't have any active trips to update.">>

\* _update_trip_status without db.add(status_update).
_update_trip_status_no_row(d, driver_id, status, notes, commit_ok) ==
    LET trip == ActiveTrip(d, driver_id)
    IN  IF trip = 0
        THEN Returned(d, NoActiveTripsToUpdate)
        ELSE IF ~IsTripStatus(status)
        THEN Returned(d, InvalidStatus(status))
        ELSE Commit(d, SetTripStatus(d, trip, status[1]),
                    <<"Trip status updated to: ", status[1]>>, commit_ok)

\* _update_trip_status without the TripStatus(status) validation.
_update_trip_status_unvalidated(d, driver_id, status, notes, commit_ok) ==
    LET trip == ActiveTrip(d, driver_id)
    IN  IF trip = 0
        THEN Returned(d, NoActiveTripsToUpdate)
        ELSE Commit(d,
                    SetTripStatus(
                        AddStatusUpdate(d, StatusUpdate(trip, driver_id, status[1], notes)),
                        trip, status[1]),
                    <<"Trip status updated to: ", status[1]>>, commit_ok)

\* _update_trip_status without the filter Trip.status != completed.
_update_trip_status_any_trip(d, driver_id, status, notes, commit_ok) ==
    LET mine == {t \in 1..Len(d.trips) : d.trips[t].driver_id = driver_id}
    IN  IF mine = {}
        THEN Returned(d, NoActiveTripsToUpdate)
        ELSE IF ~IsTripStatus(status)
        THEN Returned(d, InvalidStatus(status))
        ELSE Commit(d,
                    SetTripStatus(
                        AddStatusUpdate(d, StatusUpdate(Max(mine), driver_id, status[1], notes)),
                        Max(mine), status[1]),
                    <<"Trip status updated to: ", status[1]>>, commit_ok)

\* _update_trip_status that accepts a status only if it comes later in the
\* lifecycle than the status the trip has.
LifecycleOrder ==
    <<"assigned", "at_pickup", "loading", "in_transit", "delayed", "issue_reported",
      "at_destination", "unloading", "completed">>

LifecycleRank(status) == CHOOSE i \in 1..Len(LifecycleOrder) : LifecycleOrder[i] = status

_update_trip_status_in_order(d, driver_id, status, notes, commit_ok) ==
    LET trip == ActiveTrip(d, driver_id)
    IN  IF trip = 0
        THEN Returned(d, NoActiveTripsToUpdate)
        ELSE IF ~IsTripStatus(status)
        THEN Returned(d, InvalidStatus(status))
        ELSE IF LifecycleRank(status[1]) <= LifecycleRank(d.trips[trip].status)
        THEN Returned(d, InvalidStatus(status))
        ELSE Commit(d,
                    SetTripStatus(
                        AddStatusUpdate(d, StatusUpdate(trip, driver_id, status[1], notes)),
                        trip, status[1]),
                    <<"Trip status updated to: ", status[1]>>, commit_ok)

_update_trip_status(d, driver_id, status, notes, commit_ok) ==
    LET trip == ActiveTrip(d, driver_id)
    IN  IF trip = 0
        THEN Returned(d, NoActiveTripsToUpdate)
        ELSE IF ~IsTripStatus(status)
        THEN Returned(d, InvalidStatus(status))
        ELSE LET new_status == status[1]
                 status_update == StatusUpdate(trip, driver_id, new_status, notes)
             IN  Commit(d,
                        SetTripStatus(AddStatusUpdate(d, status_update), trip, new_status),
                        <<"Trip status updated to: ", new_status>>,
                        commit_ok)

IssueReported(description) == <<"Issue reported: ">> \o description

\* _report_issue without the StatusUpdate row.
_report_issue_no_update(d, driver_id, description, commit_ok) ==
    LET trip == ActiveTrip(d, driver_id)
    IN  IF trip = 0
        THEN Returned(d, <<"You don't have any active trips to report issues for.">>)
        ELSE Commit(d,
                    SetTripStatus(AddIssue(d, Issue(trip, driver_id, description, "open")),
                                  trip, "issue_reported"),
                    IssueReported(description), commit_ok)

_report_issue(d, driver_id, description, commit_ok) ==
    LET trip == ActiveTrip(d, driver_id)
    IN  IF trip = 0
        THEN Returned(d, <<"You don't have any active trips to report issues for.">>)
        ELSE LET issue == Issue(trip, driver_id, description, "open")
                 status_update ==
                     StatusUpdate(trip, driver_id, "issue_reported",
                                  IssueReported(description))
             IN  Commit(d,
                        AddStatusUpdate(
                            SetTripStatus(AddIssue(d, issue), trip, "issue_reported"),
                            status_update),
                        IssueReported(description),
                        commit_ok)

_update_location(d, driver_id, latitude, longitude, commit_ok) ==
    LET trip == ActiveTrip(d, driver_id)
    IN  IF trip = 0
        THEN Returned(d, <<"You don't have any active trips to update location for.">>)
        ELSE Commit(d,
                    AddLocation(d, Location(trip, latitude, longitude)),
                    <<"Location updated: ">> \o latitude \o <<", ">> \o longitude,
                    commit_ok)

_get_trip_history(d, driver_id) ==
    IF \E t \in 1..Len(d.trips) : d.trips[t].driver_id = driver_id
    THEN Returned(d, <<"Your recent trips:">>)
    ELSE Returned(d, <<"You don't have any trip history.">>)

(***************************************************************************)
(* driver_agent.py: the tool list and the dispatch of process_message.     *)
(***************************************************************************)
\* _create_tools: name -> the keyword parameters of the handler.
_create_tools ==
    [get_current_trip |-> [required |-> {}, optional |-> {}],
     update_trip_status |-> [required |-> {<<"status">>}, optional |-> {<<"notes">>}],
     report_issue |-> [required |-> {<<"description">>}, optional |-> {}],
     update_location |-> [required |-> {<<"latitude">>, <<"longitude">>},
                          optional |-> {}],
     get_trip_history |-> [required |-> {}, optional |-> {}]]

ToolNames == DOMAIN _create_tools

\* t.name == tool_name written as: t.name.lower() == tool_name.lower().
Lower(tok) == IF tok = "Update_Trip_Status" THEN "update_trip_status" ELSE tok

\* next((t for t in self.tools if t.name == tool_name), None); "" is None.
FindToolIgnoringCase(tool_name) ==
    IF Len(tool_name) = 1 /\ Lower(tool_name[1]) \in ToolNames
    THEN Lower(tool_name[1]) ELSE ""

FindTool(tool_name) ==
    IF Len(tool_name) = 1 /\ tool_name[1] \in ToolNames THEN tool_name[1] ELSE ""

\* tool.func(**params) binds: every required keyword present, none unknown.
Binds(tool, params) ==
    /\ _create_tools[tool].required \subseteq DOMAIN params
    /\ DOMAIN params \subseteq
           (_create_tools[tool].required \cup _create_tools[tool].optional)

Invoke(tool, d, driver_id, params, commit_ok) ==
    CASE tool = "get_current_trip" -> _get_current_trip(d, driver_id)
      [] tool = "update_trip_status" ->
            _update_trip_status(d, driver_id, params[<<"status">>],
                IF <<"notes">> \in DOMAIN params THEN params[<<"notes">>] ELSE NoneVal,
                commit_ok)
      [] tool = "report_issue" ->
            _report_issue(d, driver_id, params[<<"description">>], commit_ok)
      [] tool = "update_location" ->
            _update_location(d, driver_id, params[<<"latitude">>],
                             params[<<"longitude">>], commit_ok)
      [] tool = "get_trip_history" -> _get_trip_history(d, driver_id)

ErrorNotice ==
    <<"I'm sorry, I encountered an error while processing your message. Please try again or contact support if the issue persists.">>

Message(role, content) == [role |-> role, content |-> content]

\* The outcome of one turn: the store, the returned text, the agent's memory
\* at the end of the turn and the handler that ran ("" when none did).
Turn(d, text, memory, handler) ==
    [db |-> d, result |-> text, memory |-> memory, handler |-> handler]

\* The messages process_message hands to llm.invoke: the system message and
\* then self.memory[-10:], taken after the user message has been appended.
WindowSize == 10

SystemMessage ==
    Message("system", <<"You are an AI assistant for truck drivers using a logistics management system.">>)

\* memory[:10], the first entries in place of the last.
WindowFromStart(memory) ==
    SubSeq(memory, 1, IF Len(memory) < WindowSize THEN Len(memory) ELSE WindowSize)

Window(memory) ==
    SubSeq(memory,
           IF Len(memory) < WindowSize THEN 1 ELSE Len(memory) - WindowSize + 1,
           Len(memory))

LlmMessages(self, message) ==
    <<SystemMessage>> \o Window(Append(self.memory, Message("user", message)))

\* DriverAgent.__init__: an agent is built with an empty memory.
DriverAgent(driver_id) == [driver_id |-> driver_id, memory |-> <<>>]

\* process_message without "if tool:": tool.func on None raises, and the
\* turn ends with the generic notice.
process_message_unchecked_tool(d, self, message, response_content, commit_ok) ==
    LET driver_id == self.driver_id
        memory == self.memory \o
                  <<Message("user", message), Message("assistant", response_content)>>
        Executed(tool, out) ==
            IF out.raised
            THEN Turn(out.db, ErrorNotice, memory, tool)
            ELSE Turn(out.db, out.result,
                      Append(memory, Message("system", <<"Tool result: ">> \o out.result)),
                      tool)
        Execute(call, tool) ==
            IF call.tag # "ToolCall"
            THEN Turn(d, response_content, memory, "")
            ELSE IF tool = ""
            THEN Turn(d, ErrorNotice, memory, "")
            ELSE IF ~Binds(tool, call.params)
            THEN Turn(d, ErrorNotice, memory, "")
            ELSE Executed(tool, Invoke(tool, d, driver_id, call.params, commit_ok))
        Dispatch(call) ==
            Execute(call, IF call.tag = "ToolCall" THEN FindTool(call.name) ELSE "")
    IN  Dispatch(Parsed(response_content))

\* call is the parsed reply, tool the entry of self.tools it names and out the
\* outcome of tool.func(**params).
process_message(d, self, message, response_content, commit_ok) ==
    LET driver_id == self.driver_id
        memory == self.memory \o
                  <<Message("user", message), Message("assistant", response_content)>>
        Executed(tool, out) ==
            IF out.raised
            THEN Turn(out.db, ErrorNotice, memory, tool)
            ELSE Turn(out.db, out.result,
                      Append(memory, Message("system", <<"Tool result: ">> \o out.result)),
                      tool)
        Execute(call, tool) ==
            IF tool = ""
            THEN Turn(d, response_content, memory, "")
            ELSE IF ~Binds(tool, call.params)
            THEN Turn(d, ErrorNotice, memory, "")
            ELSE Executed(tool, Invoke(tool, d, driver_id, call.params, commit_ok))
        Dispatch(call) ==
            Execute(call, IF call.tag = "ToolCall" THEN FindTool(call.name) ELSE "")
    IN  Dispatch(Parsed(response_content))

\* The turn runs a driver tool down to its db.commit(): only then does the
\* store give an answer.
ReachesCommit(d, driver_id, response_content) ==
    LET Commits(call, tool) ==
            /\ tool \in {"update_trip_status", "report_issue", "update_location"}
            /\ Binds(tool, call.params)
            /\ ActiveTrip(d, driver_id) # 0
            /\ tool = "update_trip_status" => IsTripStatus(call.params[<<"status">>])
        Dispatch(call) ==
            Commits(call, IF call.tag = "ToolCall" THEN FindTool(call.name) ELSE "")
    IN  Dispatch(Parsed(response_content))

(***************************************************************************)
(* bot.py: the chat handlers.                                              *)
(***************************************************************************)
\* notify_stakeholders: one Notification per non-null manager, shipper and
\* consignee of the trip, committed in a session of its own.
Stakeholders(trip) ==
    SelectSeq(<<trip.manager_id, trip.shipper_id, trip.consignee_id>>,
              LAMBDA id : id # 0)

RECURSIVE AddNotifications(_, _, _, _)
AddNotifications(d, user_ids, trip_id, message) ==
    IF user_ids = <<>>
    THEN d
    ELSE AddNotifications(AddNotification(d, Notification(Head(user_ids), trip_id, message)),
                          Tail(user_ids), trip_id, message)

notify_stakeholders(d, trip_id, message) ==
    IF TripById(d, trip_id) = 0
    THEN d
    ELSE AddNotifications(d, Stakeholders(d.trips[trip_id]), trip_id, message)

StatusUpdatedTo(status) == <<"Status updated to: ", status>>

update_trip_status(d, user_id, trip_id, status, notes, commit_ok) ==
    IF TripById(d, trip_id) # 0
    THEN Commit(d,
                AddStatusUpdate(SetTripStatus(d, trip_id, status),
                                StatusUpdate(trip_id, user_id, status, notes)),
                StatusUpdatedTo(status),
                commit_ok)
    ELSE Returned(d, TripNo(trip_id) \o <<" not found.">>)

\* The quick-reply buttons of handle_text_message that change the status:
\* button text -> status, notes and the text sent to the stakeholders.
Button(status, notes, before, after) ==
    [status |-> status, notes |-> notes, before |-> before, after |-> after]

StatusButtons ==
    ("At Pickup" :> Button("at_pickup", NoneVal,
                           <<"Driver has arrived at pickup location for ">>, <<>>)) @@
    ("Loading" :> Button("loading", NoneVal, <<"Loading has begun for ">>, <<>>)) @@
    ("Departed" :> Button("in_transit", NoneVal,
                          <<"Driver has departed from pickup location for ">>, <<>>)) @@
    ("Slight Delay" :> Button("delayed", <<"Slight delay reported">>,
                              <<"Driver for ">>, <<" reports a slight delay">>)) @@
    ("Major Delay" :> Button("delayed", <<"Major delay reported">>,
                             <<"Driver for ">>, <<" reports a major delay">>)) @@
    ("Arrived at Destination" :> Button("at_destination", NoneVal,
                                        <<"Driver has arrived at destination for ">>, <<>>)) @@
    ("Unloading" :> Button("unloading", NoneVal, <<"Unloading has begun for ">>, <<>>)) @@
    ("Completed Delivery" :> Button("completed", NoneVal,
                                    <<"Delivery has been completed for ">>, <<>>))

OtherButtons == {"On Schedule", "Report Issue", "Trip Details", "Share Location"}

IsButton(text, names) == Len(text) = 1 /\ text[1] \in names

\* The outcome of one chat update: the store and the user's data it leaves,
\* the branch taken, the trip it acted on, the text sent back (<<>> when the
\* handler raised before replying) and the agent turn, if one ran.
NoTurn == Turn(<<>>, <<>>, <<>>, "")

Handled(d, ud, branch, trip_id, reply, raised, turn) ==
    [db |-> d, user_data |-> ud, branch |-> branch, trip_id |-> trip_id,
     reply |-> reply, raised |-> raised, turn |-> turn]

\* handle_text_message without the del of the pending-issue flag.
handle_text_message_keeps_flag(d, ud, user_id, text, response_content, commit_ok) ==
    LET trip == IF d.users[user_id] = "driver" THEN ActiveTrip(d, user_id) ELSE 0
    IN  IF trip # 0 /\ IsButton(text, DOMAIN StatusButtons)
        THEN LET b == StatusButtons[text[1]]
                 out == update_trip_status(d, user_id, trip, b.status, b.notes, commit_ok)
             IN  IF out.raised
                 THEN Handled(d, ud, "status_button", trip, <<>>, TRUE, NoTurn)
                 ELSE Handled(notify_stakeholders(out.db, trip,
                                                  b.before \o TripNo(trip) \o b.after),
                              ud, "status_button", trip, out.result, FALSE, NoTurn)
        ELSE IF trip # 0 /\ text = <<"On Schedule">>
        THEN Handled(notify_stakeholders(d, trip,
                         <<"Driver for ">> \o TripNo(trip) \o <<" reports being on schedule">>),
                     ud, "on_schedule", trip,
                     <<"Thanks for confirming you're on schedule.">>, FALSE, NoTurn)
        ELSE IF trip # 0 /\ text = <<"Report Issue">>
        THEN Handled(d, [ud EXCEPT ![user_id].awaiting_issue = trip],
                     "report_issue_button", trip,
                     <<"Please describe the issue you're experiencing:">>, FALSE, NoTurn)
        ELSE IF trip # 0 /\ text = <<"Trip Details">>
        THEN Handled(d, ud, "trip_details", trip,
                     _get_current_trip(d, user_id).result, FALSE, NoTurn)
        ELSE IF trip # 0 /\ text = <<"Share Location">>
        THEN Handled(d, ud, "share_location", trip,
                     <<"Please share your current location:">>, FALSE, NoTurn)
        ELSE IF ud[user_id].awaiting_issue # 0
        THEN LET trip_id == ud[user_id].awaiting_issue
                 issue == Issue(trip_id, user_id, text, "open")
                 status_update ==
                     StatusUpdate(trip_id, user_id, "issue_reported", IssueReported(text))
                 notified ==
                     IF TripById(d, trip_id) # 0
                     THEN notify_stakeholders(d, trip_id,
                              <<"Issue reported for ">> \o TripNo(trip_id) \o <<": ">> \o text)
                     ELSE d
                 written ==
                     IF TripById(d, trip_id) # 0
                     THEN AddStatusUpdate(
                              SetTripStatus(AddIssue(notified, issue), trip_id, "issue_reported"),
                              status_update)
                     ELSE AddIssue(notified, issue)
             IN  IF commit_ok
                 THEN Handled(written, ud,
                              "awaiting_issue", trip_id,
                              <<"Issue reported. Thank you for letting us know.">>,
                              FALSE, NoTurn)
                 ELSE Handled(notified, ud, "awaiting_issue", trip_id, <<>>, TRUE, NoTurn)
        ELSE IF d.users[user_id] = "driver"
        THEN LET Replied(turn) ==
                     Handled(turn.db, ud, "agent", ActiveTrip(d, user_id),
                             turn.result, FALSE, turn)
             IN  Replied(process_message(d, DriverAgent(user_id), text,
                                         response_content, commit_ok))
        ELSE Handled(d, ud, "other_agent", 0, <<>>, FALSE, NoTurn)

handle_text_message(d, ud, user_id, text, response_content, commit_ok) ==
    LET trip == IF d.users[user_id] = "driver" THEN ActiveTrip(d, user_id) ELSE 0
    IN  IF trip # 0 /\ IsButton(text, DOMAIN StatusButtons)
        THEN LET b == StatusButtons[text[1]]
                 out == update_trip_status(d, user_id, trip, b.status, b.notes, commit_ok)
             IN  IF out.raised
                 THEN Handled(d, ud, "status_button", trip, <<>>, TRUE, NoTurn)
                 ELSE Handled(notify_stakeholders(out.db, trip,
                                                  b.before \o TripNo(trip) \o b.after),
                              ud, "status_button", trip, out.result, FALSE, NoTurn)
        ELSE IF trip # 0 /\ text = <<"On Schedule">>
        THEN Handled(notify_stakeholders(d, trip,
                         <<"Driver for ">> \o TripNo(trip) \o <<" reports being on schedule">>),
                     ud, "on_schedule", trip,
                     <<"Thanks for confirming you're on schedule.">>, FALSE, NoTurn)
        ELSE IF trip # 0 /\ text = <<"Report Issue">>
        THEN Handled(d, [ud EXCEPT ![user_id].awaiting_issue = trip],
                     "report_issue_button", trip,
                     <<"Please describe the issue you're experiencing:">>, FALSE, NoTurn)
        ELSE IF trip # 0 /\ text = <<"Trip Details">>
        THEN Handled(d, ud, "trip_details", trip,
                     _get_current_trip(d, user_id).result, FALSE, NoTurn)
        ELSE IF trip # 0 /\ text = <<"Share Location">>
        THEN Handled(d, ud, "share_location", trip,
                     <<"Please share your current location:">>, FALSE, NoTurn)
        ELSE IF ud[user_id].awaiting_issue # 0
        THEN LET trip_id == ud[user_id].awaiting_issue
                 issue == Issue(trip_id, user_id, text, "open")
                 status_update ==
                     StatusUpdate(trip_id, user_id, "issue_reported", IssueReported(text))
                 notified ==
                     IF TripById(d, trip_id) # 0
                     THEN notify_stakeholders(d, trip_id,
                              <<"Issue reported for ">> \o TripNo(trip_id) \o <<": ">> \o text)
                     ELSE d
                 written ==
                     IF TripById(d, trip_id) # 0
                     THEN AddStatusUpdate(
                              SetTripStatus(AddIssue(notified, issue), trip_id, "issue_reported"),
                              status_update)
                     ELSE AddIssue(notified, issue)
             IN  IF commit_ok
                 THEN Handled(written, [ud EXCEPT ![user_id].awaiting_issue = 0],
                              "awaiting_issue", trip_id,
                              <<"Issue reported. Thank you for letting us know.">>,
                              FALSE, NoTurn)
                 ELSE Handled(notified, ud, "awaiting_issue", trip_id, <<>>, TRUE, NoTurn)
        ELSE IF d.users[user_id] = "driver"
        THEN LET Replied(turn) ==
                     Handled(turn.db, ud, "agent", ActiveTrip(d, user_id),
                             turn.result, FALSE, turn)
             IN  Replied(process_message(d, DriverAgent(user_id), text,
                                         response_content, commit_ok))
        ELSE Handled(d, ud, "other_agent", 0, <<>>, FALSE, NoTurn)

\* The attributes of a Python dict; context.user_data is a dict, and its
\* keys are not among its attributes.
DictAttributes ==
    {"clear", "copy", "fromkeys", "get", "items", "keys", "pop", "popitem",
     "setdefault", "update", "values"}

\* hasattr(context.user_data, name)
HasAttr(name) == name \in DictAttributes

RoleKeyboard == <<"Hello! Welcome to the Logistics AI Bot.", "Please select your role:">>

Welcome(role) ==
    <<"Hello! Welcome to the Logistics AI Bot.", "You are registered as a ", role>>

\* start: the role keyboard when the role is "not already set", the welcome
\* of the registered role otherwise.
start(d, ud, user_id) ==
    IF ~HasAttr("role_set") \/ ~ud[user_id].role_set
    THEN Handled(d, ud, "role_keyboard", 0, RoleKeyboard, FALSE, NoTurn)
    ELSE Handled(d, ud, "welcome", 0, Welcome(d.users[user_id]), FALSE, NoTurn)

RoleSetTo(role) == <<"Your role has been set to ", role, ". You can now use the bot.">>

\* The part set_role_command and the set_role_ callback share: the role is
\* written to the user's row and committed, then role_set is recorded.
set_role(d, ud, user_id, role, commit_ok) ==
    IF commit_ok
    THEN Handled([d EXCEPT !.users[user_id] = role],
                 [ud EXCEPT ![user_id].role_set = TRUE],
                 "set_role", 0, RoleSetTo(role), FALSE, NoTurn)
    ELSE Handled(d, ud, "set_role", 0, <<>>, TRUE, NoTurn)

\* set_role_command: /set_role with its arguments.
set_role_command(d, ud, user_id, args, commit_ok) ==
    IF args = <<>> \/ args[1] \notin UserRole
    THEN Handled(d, ud, "invalid_role", 0,
                 <<"Please provide a valid role: /set_role [driver|manager|shipper|consignee]">>,
                 FALSE, NoTurn)
    ELSE set_role(d, ud, user_id, args[1], commit_ok)

\* confirm_trip: the callback of the "confirm" button under a trip
\* assignment.  The StatusUpdate is written with status assigned whatever
\* status the trip has by then; Trip.status is not touched.
confirm_trip(d, user_id, trip_id, commit_ok) ==
    IF TripById(d, trip_id) # 0 /\ d.trips[trip_id].driver_id = user_id
    THEN IF commit_ok
         THEN Returned(
                  notify_stakeholders(
                      AddStatusUpdate(d, StatusUpdate(trip_id, user_id, "assigned",
                                                      <<"Trip confirmed by driver">>)),
                      trip_id, <<"Driver has confirmed ">> \o TripNo(trip_id)),
                  TripNo(trip_id) \o <<" confirmed. You will receive updates and can use the quick reply buttons to report your status.">>)
         ELSE Raised(d)
    ELSE Returned(d, TripNo(trip_id) \o <<" not found or not assigned to you.">>)

(***************************************************************************)
(* manager_agent.py: the tool handlers that write.  commits is the store's *)
(* answer to the first and to the second db.commit() of a handler.         *)
(***************************************************************************)
IssueNo(issue_id) == <<"Issue #", ToString(issue_id)>>

\* db.query(Issue).filter(Issue.id == issue_id).first(); 0 is "no row".
IssueById(d, issue_id) == IF issue_id \in 1..Len(d.issues) THEN issue_id ELSE 0

\* issue.status = "resolved" without issue.resolved_at = datetime.utcnow().
ResolveIssueWithoutTimestamp(d, issue_id) ==
    [d EXCEPT !.issues[issue_id].status = "resolved"]

ResolveIssue(d, issue_id) ==
    [d EXCEPT !.issues[issue_id].status = "resolved",
              !.issues[issue_id].resolved_at = TRUE]

\* _resolve_issue without "if not issue: return ...": issue.status of None.
_resolve_issue_unguarded(d, issue_id, commits) ==
    IF IssueById(d, issue_id) = 0
    THEN Raised(d)
    ELSE IF d.issues[issue_id].status = "resolved"
    THEN Returned(d, IssueNo(issue_id) \o <<" is already resolved.">>)
    ELSE IF ~commits[1]
    THEN Raised(d)
    ELSE Returned(ResolveIssue(d, issue_id),
                  IssueNo(issue_id) \o <<" has been marked as resolved.">>)

\* _resolve_issue that also moves the trip of the issue on to in_transit.
_resolve_issue_moving_trip(d, issue_id, commits) ==
    IF IssueById(d, issue_id) = 0
    THEN Returned(d, IssueNo(issue_id) \o <<" not found.">>)
    ELSE IF d.issues[issue_id].status = "resolved"
    THEN Returned(d, IssueNo(issue_id) \o <<" is already resolved.">>)
    ELSE IF ~commits[1]
    THEN Raised(d)
    ELSE LET resolved == ResolveIssue(d, issue_id)
             trip == TripById(resolved, resolved.issues[issue_id].trip_id)
         IN  Returned(IF trip = 0 THEN resolved
                      ELSE SetTripStatus(resolved, trip, "in_transit"),
                      IssueNo(issue_id) \o <<" has been marked as resolved.">>)

_resolve_issue(d, issue_id, commits) ==
    IF IssueById(d, issue_id) = 0
    THEN Returned(d, IssueNo(issue_id) \o <<" not found.">>)
    ELSE IF d.issues[issue_id].status = "resolved"
    THEN Returned(d, IssueNo(issue_id) \o <<" is already resolved.">>)
    ELSE IF ~commits[1]
    THEN Raised(d)
    ELSE LET resolved == ResolveIssue(d, issue_id)
             issue == resolved.issues[issue_id]
             trip == TripById(resolved, issue.trip_id)
             text == IssueNo(issue_id) \o <<" has been marked as resolved.">>
         IN  IF trip # 0 /\ resolved.trips[trip].driver_id # 0
             THEN Commit(resolved,
                         AddNotification(resolved,
                             Notification(resolved.trips[trip].driver_id, trip,
                                 <<"Your reported issue has been resolved: ">>
                                     \o issue.description)),
                         text, commits[2])
             ELSE Returned(resolved, text)

_send_message_to_driver(d, trip_id, message, commit_ok) ==
    IF TripById(d, trip_id) = 0
    THEN Returned(d, TripNo(trip_id) \o <<" not found.">>)
    ELSE IF d.trips[trip_id].driver_id = 0
    THEN Returned(d, TripNo(trip_id) \o <<" does not have a driver assigned.">>)
    ELSE Commit(d,
                AddNotification(d, Notification(d.trips[trip_id].driver_id, trip_id,
                                                <<"Message from manager: ">> \o message)),
                <<"Message sent to the driver of ">> \o TripNo(trip_id) \o <<".">>,
                commit_ok)

ErrorCreatingTrip == <<"Error creating trip: ...">>

\* With no driver_id the handler looks for a free driver with a query that
\* names TripStatus.IN_PROGRESS, which TripStatus does not define: the
\* attribute lookup raises before anything is written.
_create_new_trip(d, manager_id, pickup_address, delivery_address, cargo_description, driver_id, shipper_id, consignee_id, commits) ==
    IF pickup_address = <<>> \/ delivery_address = <<>> \/ cargo_description = <<>>
    THEN Returned(d, <<"Error: Missing required parameters. Please provide pickup_address, delivery_address, and cargo_description.">>)
    ELSE IF driver_id = 0
    THEN Raised(d)
    ELSE IF ~(driver_id \in 1..Len(d.users) /\ d.users[driver_id] = "driver")
    THEN Returned(d, <<"Error: Driver with ID ", ToString(driver_id),
                       " not found or is not a driver.">>)
    ELSE IF ~commits[1]
    THEN Returned(d, ErrorCreatingTrip)
    ELSE LET created ==
                 [d EXCEPT !.trips =
                      Append(@, Trip(driver_id, manager_id, shipper_id, consignee_id,
                                     "assigned"))]
             trip == Len(created.trips)
             notified ==
                 AddNotification(created,
                     Notification(driver_id, trip,
                         <<"You have been assigned to a new trip: ">> \o pickup_address
                             \o <<" to ">> \o delivery_address))
         IN  IF commits[2]
             THEN Returned(notified,
                           <<"Success: New trip created with ID #", ToString(trip),
                             ". Trip assigned to driver (ID: ", ToString(driver_id), ").">>)
             ELSE Returned(created, ErrorCreatingTrip)

(***************************************************************************)
(* shipper_agent.py: the tool handler that writes.                         *)
(***************************************************************************)
ShipmentNo(trip_id) == <<"Shipment #", ToString(trip_id)>>

\* db.query(Trip).filter(Trip.id == trip_id,
\*                      Trip.shipper_id == self.shipper_id).first()
ShipmentOf(d, shipper_id, trip_id) ==
    IF TripById(d, trip_id) # 0 /\ d.trips[trip_id].shipper_id = shipper_id
    THEN trip_id ELSE 0

ShipperAgent_send_message_to_driver(d, shipper_id, trip_id, message, commit_ok) ==
    IF ShipmentOf(d, shipper_id, trip_id) = 0
    THEN Returned(d, ShipmentNo(trip_id) \o <<" not found or you don't have access to it.">>)
    ELSE IF d.trips[trip_id].driver_id = 0
    THEN Returned(d, ShipmentNo(trip_id) \o <<" does not have a driver assigned.">>)
    ELSE Commit(d,
                AddNotification(d, Notification(d.trips[trip_id].driver_id, trip_id,
                                                <<"Message from shipper: ">> \o message)),
                <<"Message sent to the driver of ">> \o ShipmentNo(trip_id) \o <<".">>,
                commit_ok)

(***************************************************************************)
(* The inputs of the model: the users that write, the replies the language *)
(* model gives, the texts a user types and the bodies of the REST calls.   *)
(***************************************************************************)
Drivers(d) == {u \in 1..Len(d.users) : d.users[u] = "driver"}

ChatTexts ==
    {<<"At Pickup">>, <<"Slight Delay">>, <<"Completed Delivery">>, <<"On Schedule">>,
     <<"Report Issue">>, <<"Trip Details">>, <<"Share Location">>, <<"flat tire">>}

RestStatuses == {"assigned", "in_transit", "completed"}

\* driver_id, manager_id, shipper_id, consignee_id of the trips POST /trips/ creates.
TripBodies == {<<1, 2, 2, 4>>, <<1, 0, 0, 0>>}

(***************************************************************************)
(* The state: the store, each chat user's user_data, and a record of the   *)
(* request handled last (what was asked, what was answered).               *)
(***************************************************************************)
Request(op, branch, user_id, trip_id, status, text, response_content, result, handler, memory, raised) ==
    [op |-> op, branch |-> branch, user_id |-> user_id, trip_id |-> trip_id,
     status |-> status, text |-> text, response_content |-> response_content,
     result |-> result, handler |-> handler, memory |-> memory, raised |-> raised,
     issue_id |-> 0, commit_ok |-> TRUE, messages |-> <<>>, input |-> <<>>]

NoRequest == Request("", "", 0, 0, <<>>, <<>>, <<>>, <<>>, "", <<>>, FALSE)

Probe(stage, name, pairs, text, call) ==
    [stage |-> stage, name |-> name, pairs |-> pairs, text |-> text, call |-> call]

NoCall == [tag |-> "", name |-> <<>>, params |-> EmptyParams]

NoProbe == Probe("off", <<>>, <<>>, <<>>, NoCall)

\* No DriverAgent object is kept between requests.
NoAgent == DriverAgent(0)

Init ==
    /\ db = create_test_data
    /\ user_data = [u \in 1..Len(create_test_data.users) |-> [awaiting_issue |-> 0, role_set |-> FALSE]]
    /\ last = NoRequest
    /\ steps = 0
    /\ probe = NoProbe
    /\ agent = NoAgent
    /\ requests = <<>>

\* The requested status of a turn: the status parameter of the tool call.
RequestedStatus(response_content) ==
    LET StatusOf(call) ==
            IF call.tag = "ToolCall" /\ <<"status">> \in DOMAIN call.params
            THEN call.params[<<"status">>] ELSE <<>>
    IN  StatusOf(Parsed(response_content))

\* The language model is called only in the turns that reach the agent.
ReachesAgent(branch) == branch = "agent"

\* The answers the store can give to the commit of a chat update: the
\* status buttons, the pending-issue branch and the tools of the agent commit.
CommitAnswers(branch, d, user_id, response_content) ==
    IF \/ branch \in {"status_button", "awaiting_issue"}
       \/ branch = "agent" /\ ReachesCommit(d, user_id, response_content)
    THEN BOOLEAN ELSE {TRUE}

\* bot.py: a text message of a driver reaches handle_text_message.
TextMessage ==
    /\ steps < MaxSteps
    /\ \E user_id \in Drivers(db), text \in ChatTexts :
       \E branch \in {handle_text_message(db, user_data, user_id, text, <<>>, TRUE).branch} :
       \E response_content \in IF ReachesAgent(branch) THEN Replies ELSE {<<>>} :
       \E commit_ok \in CommitAnswers(branch, db, user_id, response_content) :
       \E out \in {handle_text_message(db, user_data, user_id, text,
                                        response_content, commit_ok)} :
          /\ db' = out.db
          /\ user_data' = out.user_data
          /\ last' = [Request("handle_text_message", branch, user_id, out.trip_id,
                             IF branch = "agent" THEN RequestedStatus(response_content)
                             ELSE IF branch = "status_button"
                                  THEN <<StatusButtons[text[1]].status>>
                                  ELSE IF branch = "awaiting_issue"
                                       THEN <<"issue_reported">> ELSE <<>>,
                             text,
                             IF branch = "agent" THEN response_content ELSE <<>>,
                             out.reply,
                             out.turn.handler, out.turn.memory, out.raised)
                         EXCEPT !.commit_ok = commit_ok,
                                !.messages = IF branch = "agent"
                                             THEN LlmMessages(DriverAgent(user_id), text)
                                             ELSE <<>>]
    /\ steps' = steps + 1
    /\ UNCHANGED <<probe, agent, requests>>

\* main.py: POST /agent/driver/{driver_id}/query, answered by the language
\* model with one of replies.
DriverQuery(replies) ==
    /\ steps < MaxSteps
    /\ \E driver_id \in Drivers(db), response_content \in replies :
       \E commit_ok \in IF ReachesCommit(db, driver_id, response_content)
                         THEN BOOLEAN ELSE {TRUE} :
       \E turn \in {process_message(db, DriverAgent(driver_id), <<"query">>,
                                     response_content, commit_ok)} :
          /\ db' = turn.db
          /\ last' = [Request("query_driver_agent", "agent", driver_id,
                              ActiveTrip(db, driver_id),
                              RequestedStatus(response_content), <<"query">>,
                              response_content, turn.result, turn.handler,
                              turn.memory, FALSE)
                         EXCEPT !.commit_ok = commit_ok,
                                !.messages = LlmMessages(DriverAgent(driver_id),
                                                         <<"query">>)]
    /\ steps' = steps + 1
    /\ UNCHANGED <<user_data, probe, agent, requests>>

query_driver_agent == DriverQuery(Replies)

\* main.py: POST /trips/.
create_trip ==
    /\ steps < MaxSteps
    /\ Len(db.trips) < MaxTrips
    /\ \E trip \in TripBodies :
          /\ db' = [db EXCEPT !.trips =
                        Append(@, Trip(trip[1], trip[2], trip[3], trip[4], "assigned"))]
          /\ last' = Request("create_trip", "", 0, Len(db.trips) + 1, <<>>, <<>>, <<>>,
                             <<>>, "", <<>>, FALSE)
    /\ steps' = steps + 1
    /\ UNCHANGED <<user_data, probe, agent, requests>>

\* main.py: PUT /trips/{trip_id} with a status in the body: one of the
\* TripStatus values, or null, which exclude_unset keeps and setattr stores.
update_trip ==
    /\ steps < MaxSteps
    /\ \E trip_id \in 1..Len(db.trips), status \in RestStatuses \cup {NullStatus} :
          /\ db' = SetTripStatus(db, trip_id, status)
          /\ last' = Request("update_trip", "", 0, trip_id, <<status>>, <<>>, <<>>,
                             <<>>, "", <<>>, FALSE)
    /\ steps' = steps + 1
    /\ UNCHANGED <<user_data, probe, agent, requests>>

\* main.py: POST /status-updates/.
create_status_update ==
    /\ steps < MaxSteps
    /\ \E trip_id \in 1..MaxTrips, status \in RestStatuses :
          LET user_id == 1
              added == AddStatusUpdate(db, StatusUpdate(trip_id, user_id, status, NoneVal))
          IN  /\ db' = IF TripById(db, trip_id) # 0
                       THEN SetTripStatus(added, trip_id, status)
                       ELSE added
              /\ last' = Request("create_status_update", "", user_id, trip_id, <<status>>,
                                 <<>>, <<>>, <<>>, "", <<>>, FALSE)
    /\ steps' = steps + 1
    /\ UNCHANGED <<user_data, probe, agent, requests>>

\* main.py: POST /locations/.
create_location ==
    /\ steps < MaxSteps
    /\ \E trip_id \in 1..Len(db.trips) :
          /\ db' = AddLocation(db, Location(trip_id, <<"12.5">>, <<"7.5">>))
          /\ last' = Request("create_location", "", 0, trip_id, <<>>, <<>>, <<>>, <<>>,
                             "", <<>>, FALSE)
    /\ steps' = steps + 1
    /\ UNCHANGED <<user_data, probe, agent, requests>>

\* main.py: POST /issues/.
create_issue ==
    /\ steps < MaxSteps
    /\ \E trip_id \in 1..MaxTrips :
          LET reported_by_id == 1
              added == AddIssue(db, Issue(trip_id, reported_by_id, <<"flat tire">>, "open"))
          IN  /\ db' = IF TripById(db, trip_id) # 0
                       THEN SetTripStatus(added, trip_id, "issue_reported")
                       ELSE added
              /\ last' = Request("create_issue", "", reported_by_id, trip_id,
                                 <<"issue_reported">>, <<"flat tire">>, <<>>, <<>>, "",
                                 <<>>, FALSE)
    /\ steps' = steps + 1
    /\ UNCHANGED <<user_data, probe, agent, requests>>

\* The answers of the store to the two commits of a manager tool.
CommitOutcomes == {<<TRUE, TRUE>>, <<FALSE, TRUE>>, <<TRUE, FALSE>>}

\* pickup_address and driver_id of the create_new_trip calls.
NewTripInputs == {<<<<"Depot">>, 1>>, <<<<"Depot">>, 0>>, <<<<"Depot">>, 2>>, <<<<>>, 1>>}

Managers(d) == {u \in 1..Len(d.users) : d.users[u] = "manager"}

\* The record of a manager turn in which the agent executor ran one tool.
ManagerTurn(tool, manager_id, trip_id, issue_id, input, out) ==
    /\ db' = out.db
    /\ last' = [Request("query_manager_agent", "", manager_id, trip_id, <<>>,
                        <<"query">>, <<>>, out.result, tool, <<>>, out.raised)
                   EXCEPT !.issue_id = issue_id, !.input = input]

\* main.py: POST /agent/manager/{manager_id}/query, in which the agent
\* executor runs one of the writing tools of the manager.
query_manager_agent ==
    /\ steps < MaxSteps
    /\ \E manager_id \in Managers(db), commits \in CommitOutcomes :
          \/ \E issue_id \in 1..(Len(db.issues) + 1) :
                ManagerTurn("resolve_issue", manager_id,
                            IF IssueById(db, issue_id) = 0 THEN 0
                            ELSE db.issues[issue_id].trip_id,
                            issue_id, <<>>, _resolve_issue(db, issue_id, commits))
          \/ \E trip_id \in 1..(Len(db.trips) + 1) :
                ManagerTurn("send_message_to_driver", manager_id, trip_id, 0, <<>>,
                            _send_message_to_driver(db, trip_id, <<"Call me">>, commits[1]))
          \/ /\ Len(db.trips) < MaxTrips
             /\ \E input \in NewTripInputs :
                   ManagerTurn("create_new_trip", manager_id, Len(db.trips) + 1, 0, input,
                               _create_new_trip(db, manager_id, input[1], <<"Port">>,
                                                <<"Steel">>, input[2], 0, 0, commits))
    /\ steps' = steps + 1
    /\ UNCHANGED <<user_data, probe, agent, requests>>

\* bot.py: a callback query confirm_trip_<trip_id> reaches
\* handle_callback_query.
CallbackQuery ==
    /\ steps < MaxSteps
    /\ \E user_id \in Drivers(db), trip_id \in 1..Len(db.trips) :
       \E commit_ok \in IF db.trips[trip_id].driver_id = user_id
                         THEN BOOLEAN ELSE {TRUE} :
       \E out \in {confirm_trip(db, user_id, trip_id, commit_ok)} :
          /\ db' = out.db
          /\ last' = [Request("confirm_trip", "", user_id, trip_id, <<>>, <<>>, <<>>,
                              out.result, "", <<>>, out.raised)
                         EXCEPT !.commit_ok = commit_ok]
    /\ steps' = steps + 1
    /\ UNCHANGED <<user_data, probe, agent, requests>>

Shippers(d) == {u \in 1..Len(d.users) : d.users[u] = "shipper"}

\* main.py: POST /agent/shipper/{shipper_id}/query, in which the agent
\* executor runs send_message_to_driver.
query_shipper_agent ==
    /\ steps < MaxSteps
    /\ \E shipper_id \in Shippers(db), trip_id \in 1..(Len(db.trips) + 1) :
       \E commit_ok \in IF /\ ShipmentOf(db, shipper_id, trip_id) # 0
                            /\ db.trips[trip_id].driver_id # 0
                         THEN BOOLEAN ELSE {TRUE} :
       \E out \in {ShipperAgent_send_message_to_driver(db, shipper_id, trip_id,
                                                        <<"Call me">>, commit_ok)} :
          /\ db' = out.db
          /\ last' = [Request("query_shipper_agent", "", shipper_id, trip_id, <<>>,
                              <<"query">>, <<>>, out.result, "send_message_to_driver",
                              <<>>, out.raised)
                         EXCEPT !.commit_ok = commit_ok]
    /\ steps' = steps + 1
    /\ UNCHANGED <<user_data, probe, agent, requests>>

\* The roles of the users POST /users/ creates.
NewUserRoles == {"manager"}

\* main.py: POST /users/.
create_user ==
    /\ steps < MaxSteps
    /\ Len(db.users) < MaxUsers
    /\ \E role \in NewUserRoles :
          /\ db' = [db EXCEPT !.users = Append(@, role)]
          /\ last' = Request("create_user", "", Len(db.users) + 1, 0, <<>>, <<>>, <<>>,
                             <<>>, "", <<>>, FALSE)
    /\ steps' = steps + 1
    /\ UNCHANGED <<user_data, probe, agent, requests>>

Next ==
    \/ TextMessage
    \/ CallbackQuery
    \/ query_driver_agent
    \/ query_manager_agent
    \/ query_shipper_agent
    \/ create_user
    \/ create_trip
    \/ update_trip
    \/ create_status_update
    \/ create_location
    \/ create_issue

Spec == Init /\ [][Next]_vars

(***************************************************************************)
(* The response parser and the dispatch on arbitrary text.  A second       *)
(* specification draws either a tool name with a parameter list, written   *)
(* in the wire format of the prompt and parsed back, or a whole model      *)
(* reply, handled by process_message for the driver of the seeded store.   *)
(***************************************************************************)
RECURSIVE Texts(_, _)
Texts(alphabet, n) ==
    IF n = 0
    THEN {<<>>}
    ELSE LET shorter == Texts(alphabet, n - 1)
         IN  shorter \cup {Append(t, c) : t \in shorter, c \in alphabet}

WordAlphabet == {"a", SP, NL, COMMA, EQ, TOOL, PARAMETERS}

ReplyAlphabet == {TOOL, PARAMETERS, SP, NL, "get_current_trip", "x"}

\* The words of at most n tokens, for every n up to the budget.
Words == [n \in 0..MaxChars |-> Texts(WordAlphabet, n)]

\* Parameter lists of at most n key/value pairs that hold at most budget
\* tokens in all: PairTable(n) is the set of <<budget, lists>>.
Lookup(table, budget) == (CHOOSE row \in table : row[1] = budget)[2]

RECURSIVE PairTable(_)
PairTable(n) ==
    IF n = 0
    THEN {<<budget, {<<>>}>> : budget \in 0..MaxChars}
    ELSE LET shorter == PairTable(n - 1)
         IN  {<<budget,
                {<<>>} \cup
                UNION {UNION {{<<<<k, v>>>> \o rest :
                                  rest \in Lookup(shorter, budget - Len(k) - Len(v))} :
                              v \in Words[budget - Len(k)]} :
                       k \in Words[budget]}>> :
              budget \in 0..MaxChars}

PairLists == PairTable(MaxPairs)

DistinctKeys(pairs) ==
    \A i, j \in 1..Len(pairs) : i # j => pairs[i][1] # pairs[j][1]

ParamMap(pairs) ==
    [k \in {pairs[i][1] : i \in 1..Len(pairs)} |->
        pairs[CHOOSE i \in 1..Len(pairs) : pairs[i][1] = k][2]]

\* The format the prompt of process_message prescribes:
\*   Tool: <tool_name>
\*   Parameters: <parameter1>=<value1>, <parameter2>=<value2>, ...
RECURSIVE JoinPairs(_)
JoinPairs(pairs) ==
    IF pairs = <<>>
    THEN <<>>
    ELSE Head(pairs)[1] \o <<EQ>> \o Head(pairs)[2] \o
         (IF Len(pairs) > 1 THEN <<COMMA, SP>> \o JoinPairs(Tail(pairs)) ELSE <<>>)

WireFormat(name, pairs) ==
    <<TOOL, SP>> \o name \o <<NL, PARAMETERS, SP>> \o JoinPairs(pairs)

ParserInit ==
    /\ db = create_test_data
    /\ user_data = [u \in 1..Len(create_test_data.users) |-> [awaiting_issue |-> 0, role_set |-> FALSE]]
    /\ last = NoRequest
    /\ steps = 0
    /\ agent = NoAgent
    /\ requests = <<>>
    /\ \/ \E name \in Words[MaxChars] :
          \E pairs \in Lookup(PairLists, MaxChars - Len(name)) :
             /\ DistinctKeys(pairs)
             /\ probe = Probe("input", name, pairs, <<>>, NoCall)
       \/ \E text \in Texts(ReplyAlphabet, MaxTextLen) :
             probe = Probe("reply", <<>>, <<>>, text, NoCall)

Serialize ==
    /\ probe.stage = "input"
    /\ probe' = [probe EXCEPT !.stage = "wire",
                              !.text = WireFormat(probe.name, probe.pairs)]
    /\ UNCHANGED <<db, user_data, last, steps, agent, requests>>

Parse ==
    /\ probe.stage = "wire"
    /\ probe' = [probe EXCEPT !.stage = "parsed", !.call = Parsed(probe.text)]
    /\ UNCHANGED <<db, user_data, last, steps, agent, requests>>

\* POST /agent/driver/1/query answered by the model with probe.text.
ReplyTurn ==
    /\ probe.stage = "reply"
    /\ LET turn == process_message(db, DriverAgent(1), <<"query">>, probe.text, TRUE)
       IN  /\ db' = turn.db
           /\ last' = Request("query_driver_agent", "agent", 1, ActiveTrip(db, 1),
                              RequestedStatus(probe.text), <<"query">>, probe.text,
                              turn.result, turn.handler, turn.memory, FALSE)
    /\ probe' = [probe EXCEPT !.stage = "turn"]
    /\ steps' = steps + 1
    /\ UNCHANGED <<user_data, agent, requests>>

ParserNext == Serialize \/ Parse \/ ReplyTurn

ParserSpec == ParserInit /\ [][ParserNext]_vars

(***************************************************************************)
(* The driver's status tool on its own: successive POST                    *)
(* /agent/driver/{driver_id}/query calls in which the model asks for any   *)
(* of the statuses, from whatever status the calls before left.            *)
(***************************************************************************)
TransitionRequest == DriverQuery(StatusReplies)

LifecycleNext == TransitionRequest

LifecycleSpec == Init /\ [][LifecycleNext]_vars

(***************************************************************************)
(* One DriverAgent object that is sent one message after another: its      *)
(* memory grows from turn to turn.                                         *)
(***************************************************************************)
SessionTexts == {<<"where am I going">>, <<"thanks">>}

SessionReplies ==
    {ToolCallText("get_current_trip", <<>>),
     ToolCallText("check_weather", <<>>),
     <<"You", SP, "are", SP, "on", SP, "schedule.">>}

SessionInit ==
    /\ db = create_test_data
    /\ user_data = [u \in 1..Len(create_test_data.users) |-> [awaiting_issue |-> 0, role_set |-> FALSE]]
    /\ last = NoRequest
    /\ steps = 0
    /\ probe = NoProbe
    /\ agent = DriverAgent(1)
    /\ requests = <<>>

\* agent.process_message(message), answered by the model with response_content.
Converse ==
    /\ steps < MaxTurns
    /\ \E message \in SessionTexts, response_content \in SessionReplies :
       \E turn \in {process_message(db, agent, message, response_content, TRUE)} :
          /\ db' = turn.db
          /\ agent' = [agent EXCEPT !.memory = turn.memory]
          /\ last' = [Request("process_message", "agent", agent.driver_id,
                              ActiveTrip(db, agent.driver_id),
                              RequestedStatus(response_content), message,
                              response_content, turn.result, turn.handler,
                              turn.memory, FALSE)
                         EXCEPT !.messages = LlmMessages(agent, message)]
    /\ steps' = steps + 1
    /\ UNCHANGED <<user_data, probe, requests>>

SessionNext == Converse

SessionSpec == SessionInit /\ [][SessionNext]_vars

(***************************************************************************)
(* Two requests of driver 1 handled at the same time, each in a session of *)
(* its own (a worker thread of the REST application, the update loop of    *)
(* the bot).  A handler first queries the driver's active trip and later   *)
(* commits its writes; the store (SQLite, create_db.py) takes no lock for  *)
(* the query, so the other request may commit between the two.             *)
(***************************************************************************)
InFlight(op, status, text) ==
    [op |-> op, status |-> status, text |-> text, driver_id |-> 1,
     pc |-> "start", trip |-> 0, seen |-> "", result |-> <<>>]

RaceRequests ==
    {InFlight("update_trip_status", status, <<>>) :
        status \in {"assigned", "at_pickup", "completed"}}
    \cup {InFlight("report_issue", "issue_reported", <<"flat tire">>)}
    \cup {InFlight("status_button", StatusButtons[text].status, <<text>>) :
             text \in {"Departed", "Completed Delivery"}}

RaceInit ==
    /\ db = create_test_data
    /\ user_data = [u \in 1..Len(create_test_data.users) |-> [awaiting_issue |-> 0, role_set |-> FALSE]]
    /\ last = NoRequest
    /\ steps = 0
    /\ probe = NoProbe
    /\ agent = NoAgent
    /\ requests \in {<<first, second>> : first \in RaceRequests, second \in RaceRequests}

\* The UPDATE of the flush: the session writes Trip.status when the value
\* assigned to the loaded row differs from the value it was loaded with.
FlushTripStatus(d, trip_id, seen, status) ==
    IF status = seen THEN d ELSE SetTripStatus(d, trip_id, status)

\* The query at the head of the handler: the driver's active trip.
QueryActiveTrip(r) ==
    /\ requests[r].pc = "start"
    /\ \E trip \in {ActiveTrip(db, requests[r].driver_id)} :
          requests' =
              [requests EXCEPT
                  ![r] = IF trip = 0
                         THEN [@ EXCEPT !.pc = "done",
                                        !.result = NoActiveTripsToUpdate]
                         ELSE [@ EXCEPT !.pc = "read", !.trip = trip,
                                        !.seen = db.trips[trip].status]]
    /\ UNCHANGED <<db, user_data, last, steps, probe, agent>>

\* The rest of the handler, down to db.commit(): the rows it adds and the
\* status it gives the trip it read.  The status button hands the id of the
\* trip to update_trip_status, which loads the row again.
CommitWrites(r) ==
    /\ requests[r].pc = "read"
    /\ \E req \in {requests[r]} :
          /\ db' =
                CASE req.op = "update_trip_status" ->
                        AddStatusUpdate(
                            FlushTripStatus(db, req.trip, req.seen, req.status),
                            StatusUpdate(req.trip, req.driver_id, req.status, NoneVal))
                  [] req.op = "report_issue" ->
                        AddStatusUpdate(
                            FlushTripStatus(
                                AddIssue(db, Issue(req.trip, req.driver_id, req.text, "open")),
                                req.trip, req.seen, "issue_reported"),
                            StatusUpdate(req.trip, req.driver_id, "issue_reported",
                                         IssueReported(req.text)))
                  [] req.op = "status_button" ->
                        notify_stakeholders(
                            update_trip_status(db, req.driver_id, req.trip, req.status,
                                               StatusButtons[req.text[1]].notes, TRUE).db,
                            req.trip,
                            StatusButtons[req.text[1]].before \o TripNo(req.trip)
                                \o StatusButtons[req.text[1]].after)
          /\ requests' =
                [requests EXCEPT
                    ![r] = [@ EXCEPT !.pc = "done",
                                     !.result =
                                         CASE req.op = "update_trip_status" ->
                                                 <<"Trip status updated to: ", req.status>>
                                           [] req.op = "report_issue" ->
                                                 IssueReported(req.text)
                                           [] req.op = "status_button" ->
                                                 StatusUpdatedTo(req.status)]]
    /\ UNCHANGED <<user_data, last, steps, probe, agent>>

RaceNext == \E r \in 1..2 : QueryActiveTrip(r) \/ CommitWrites(r)

RaceSpec == RaceInit /\ [][RaceNext]_vars

(***************************************************************************)
(* The commands of the bot that show and set a user's role.                *)
(***************************************************************************)
RoleArgs == {<<>>, <<"pilot">>} \cup {<<role>> : role \in UserRole}

\* The users with a chat with the bot.
ChatUsers == DOMAIN user_data

RoleRequest(op, user_id, text, commit_ok, out) ==
    [Request(op, out.branch, user_id, 0, <<>>, text, <<>>, out.reply, "", <<>>, out.raised)
        EXCEPT !.commit_ok = commit_ok]

\* bot.py: /start.
StartCommand ==
    /\ steps < MaxSteps
    /\ \E user_id \in ChatUsers :
       \E out \in {start(db, user_data, user_id)} :
          /\ db' = out.db
          /\ user_data' = out.user_data
          /\ last' = RoleRequest("start", user_id, <<>>, TRUE, out)
    /\ steps' = steps + 1
    /\ UNCHANGED <<probe, agent, requests>>

\* bot.py: /set_role [role].
SetRoleCommand ==
    /\ steps < MaxSteps
    /\ \E user_id \in ChatUsers, args \in RoleArgs :
       \E commit_ok \in IF args = <<>> \/ args[1] \notin UserRole THEN {TRUE} ELSE BOOLEAN :
       \E out \in {set_role_command(db, user_data, user_id, args, commit_ok)} :
          /\ db' = out.db
          /\ user_data' = out.user_data
          /\ last' = RoleRequest("set_role_command", user_id, args, commit_ok, out)
    /\ steps' = steps + 1
    /\ UNCHANGED <<probe, agent, requests>>

\* bot.py: the callback query set_role_<role> of a button of the role keyboard.
SetRoleCallback ==
    /\ steps < MaxSteps
    /\ \E user_id \in ChatUsers, role \in UserRole, commit_ok \in BOOLEAN :
       \E out \in {set_role(db, user_data, user_id, role, commit_ok)} :
          /\ db' = out.db
          /\ user_data' = out.user_data
          /\ last' = RoleRequest("set_role_callback", user_id, <<role>>, commit_ok, out)
    /\ steps' = steps + 1
    /\ UNCHANGED <<probe, agent, requests>>

RoleNext == StartCommand \/ SetRoleCommand \/ SetRoleCallback

RoleSpec == Init /\ [][RoleNext]_vars

(***************************************************************************)
(* Properties.                                                             *)
(***************************************************************************)
Trips(d) == 1..Len(d.trips)

UpdatesOf(d, trip_id) ==
    SelectSeq(d.status_updates, LAMBDA row : row.trip_id = trip_id)

\* The rows a step appended to a table.
NewRows(before, after) == SubSeq(after, Len(before) + 1, Len(after))

Extends(before, after) ==
    Len(after) >= Len(before) /\ SubSeq(after, 1, Len(before)) = before

\* The step handled a request that asks for a status of trip t.
AsksStatusOf(req, t) == req.trip_id = t /\ req.status # <<>>

\* C1: once a trip is completed, every later request for a status of it is
\* rejected: the trip stays completed, its StatusUpdate history stays as it
\* is and no Notification is written.
C1_TerminalRejection ==
    [][\A t \in Trips(db) :
          (db.trips[t].status = "completed" /\ AsksStatusOf(last', t))
              => /\ db'.trips[t].status = "completed"
                 /\ UpdatesOf(db', t) = UpdatesOf(db, t)
                 /\ db'.notifications = db.notifications]_vars

\* The step handled a status transition call: the driver tool
\* update_trip_status was named by the model reply, or a status button was
\* pressed.
IsStatusToolCall(req) ==
    /\ req.branch = "agent"
    /\ Parsed(req.response_content).tag = "ToolCall"
    /\ Parsed(req.response_content).name = <<"update_trip_status">>

IsStatusCall(req) == IsStatusToolCall(req) \/ req.branch = "status_button"

ReportsSuccess(req) ==
    /\ Len(req.status) = 1
    /\ \/ req.result = <<"Trip status updated to: ", req.status[1]>>
       \/ req.result = <<"Status updated to: ", req.status[1]>>

\* C2: a status transition call that reports success leaves exactly one new
\* StatusUpdate, carrying the requested status, and the trip in that status;
\* one that does not report success leaves the StatusUpdate table and every
\* trip as they were.
C2_TransitionAtomicity ==
    [][IsStatusCall(last') =>
          IF ReportsSuccess(last')
          THEN /\ Extends(db.status_updates, db'.status_updates)
               /\ Len(NewRows(db.status_updates, db'.status_updates)) = 1
               /\ db'.status_updates[Len(db'.status_updates)].status = last'.status[1]
               /\ db'.status_updates[Len(db'.status_updates)].trip_id = last'.trip_id
               /\ db'.trips[last'.trip_id].status = last'.status[1]
          ELSE /\ db'.status_updates = db.status_updates
               /\ db'.trips = db.trips]_vars

C2_Witness ==
    /\ IsStatusToolCall(last)
    /\ last.result = <<"Trip status updated to: ", "at_pickup">>
    /\ db.trips[last.trip_id].status = "at_pickup"

\* C3: whenever a step changes the status of a trip, the same step appends
\* exactly one StatusUpdate for that trip, carrying the new status.
C3_NoOrphanedTransition ==
    [][\A t \in Trips(db) :
          db'.trips[t].status # db.trips[t].status
              => LET new == SelectSeq(NewRows(db.status_updates, db'.status_updates),
                                      LAMBDA row : row.trip_id = t)
                 IN  /\ Extends(db.status_updates, db'.status_updates)
                     /\ Len(new) = 1
                     /\ new[1].status = db'.trips[t].status]_vars

\* The step handled an issue report that went through: the driver tool
\* report_issue ran and returned, or the pending-issue branch of
\* handle_text_message ran to its end.
ReportsIssue(req) ==
    \/ req.handler = "report_issue" /\ req.result # ErrorNotice
    \/ req.branch = "awaiting_issue" /\ ~req.raised

ReportedDescription(req) ==
    IF req.branch = "awaiting_issue"
    THEN req.text
    ELSE Parsed(req.response_content).params[<<"description">>]

\* C4: an issue report with description d on a trip that is not completed
\* appends exactly one Issue (open, description d), sets the trip to
\* issue_reported and appends exactly one StatusUpdate (issue_reported) for
\* the trip, all in the one step.
C4_ReportIssue ==
    [][(/\ ReportsIssue(last')
        /\ last'.trip_id \in Trips(db)
        /\ db.trips[last'.trip_id].status # "completed")
          => LET t == last'.trip_id
                 description == ReportedDescription(last')
             IN  /\ db'.issues =
                        Append(db.issues, Issue(t, last'.user_id, description, "open"))
                 /\ db'.trips[t].status = "issue_reported"
                 /\ db'.status_updates =
                        Append(db.status_updates,
                               StatusUpdate(t, last'.user_id, "issue_reported",
                                            <<"Issue reported: ">> \o description))]_vars

C4_Witness ==
    /\ last.handler = "report_issue"
    /\ last.result = <<"Issue reported: ", "flat", SP, "tire">>
    /\ db.issues[Len(db.issues)].description = <<"flat", SP, "tire">>
    /\ db.trips[last.trip_id].status = "issue_reported"

HappyPathReply ==
    <<TOOL, SP, "update_trip_status", NL,
      PARAMETERS, SP, "status", EQ, "at_pickup", COMMA, SP, "notes", EQ, "arrived">>

\* C5: when the model replies with the tool call update_trip_status
\* (status=at_pickup, notes=arrived) and the driver's active trip is assigned,
\* the turn leaves the trip at_pickup, exactly one new StatusUpdate
\* (at_pickup, "arrived", the driver) and one new Notification for each
\* non-null manager, shipper and consignee of the trip.
C5_HappyPath ==
    [][(/\ last'.branch = "agent"
        /\ last'.response_content = HappyPathReply
        /\ last'.trip_id \in Trips(db)
        /\ db.trips[last'.trip_id].status = "assigned"
        /\ last'.result = <<"Trip status updated to: ", "at_pickup">>)
          => LET t == last'.trip_id
                 trip == db.trips[t]
             IN  /\ db'.trips[t].status = "at_pickup"
                 /\ db'.status_updates =
                        Append(db.status_updates,
                               StatusUpdate(t, last'.user_id, "at_pickup", <<"arrived">>))
                 /\ \A u \in {trip.manager_id, trip.shipper_id, trip.consignee_id} \ {0} :
                       Len(SelectSeq(NewRows(db.notifications, db'.notifications),
                                     LAMBDA n : n.user_id = u /\ n.trip_id = t)) = 1]_vars

\* The tool call of the reply binds to _update_trip_status(status, notes=None).
BindsStatusCall(req) ==
    /\ IsStatusToolCall(req)
    /\ <<"status">> \in DOMAIN Parsed(req.response_content).params
    /\ DOMAIN Parsed(req.response_content).params
           \subseteq {<<"status">>, <<"notes">>}

NotATripStatus(status) == ~(Len(status) = 1 /\ status[1] \in TripStatus)

HasOpenTrip(d, user_id) ==
    \E t \in Trips(d) :
        /\ d.trips[t].driver_id = user_id
        /\ d.trips[t].status \notin {"completed", NullStatus}

\* C6: a driver tool call update_trip_status whose status is none of the
\* nine status strings returns the text that names the invalid status, and
\* the store is left as it was.
C6_InvalidStatus ==
    [][(BindsStatusCall(last') /\ NotATripStatus(last'.status))
          => /\ last'.result =
                    <<"Invalid status: ">> \o last'.status \o <<". Available statuses: ...">>
             /\ db' = db]_vars

\* C6 as amended: such a call, made with status and at most notes, leaves the
\* store as it was; it returns the text that names the invalid status when
\* the driver has a trip whose status is set and is not completed, and the
\* no-active-trip text otherwise.
C6_InvalidStatusWithActiveTrip ==
    [][(BindsStatusCall(last') /\ NotATripStatus(last'.status))
          => /\ db' = db
             /\ last'.result =
                    IF HasOpenTrip(db, last'.user_id)
                    THEN <<"Invalid status: ">> \o last'.status
                             \o <<". Available statuses: ...">>
                    ELSE <<"You don't have any active trips to update.">>]_vars

C6_Witness ==
    /\ BindsStatusCall(last)
    /\ last.status = <<"teleporting">>
    /\ last.result = <<"Invalid status: ", "teleporting", ". Available statuses: ...">>

MostRecentTripCompleted(d, user_id) ==
    LET mine == {t \in Trips(d) : d.trips[t].driver_id = user_id}
    IN  mine # {} /\ d.trips[Max(mine)].status = "completed"

\* C7: an update_trip_status tool call by a driver whose most recent trip is
\* completed leaves every trip and the number of StatusUpdates as they were
\* and returns the no-active-trip text, whatever status it supplies (turns
\* that end in the error notice of a rejected commit set aside).
C7_MostRecentCompleted ==
    [][(/\ BindsStatusCall(last')
        /\ MostRecentTripCompleted(db, last'.user_id)
        /\ last'.result # ErrorNotice)
          => /\ db'.trips = db.trips
             /\ Len(db'.status_updates) = Len(db.status_updates)
             /\ last'.result = <<"You don't have any active trips to update.">>]_vars

\* C7 as amended: the same, for a driver whose most recent trip is completed
\* and who has no other trip whose status is set and is not completed.
C7_NoOpenTrip ==
    [][(/\ BindsStatusCall(last')
        /\ MostRecentTripCompleted(db, last'.user_id)
        /\ ~HasOpenTrip(db, last'.user_id))
          => /\ db'.trips = db.trips
             /\ Len(db'.status_updates) = Len(db.status_updates)
             /\ last'.result = <<"You don't have any active trips to update.">>]_vars

C7_Witness ==
    /\ BindsStatusCall(last)
    /\ MostRecentTripCompleted(db, last.user_id)
    /\ ~HasOpenTrip(db, last.user_id)
    /\ last.handler = "update_trip_status"
    /\ last.result = <<"You don't have any active trips to update.">>

NamesNoTool(req) ==
    /\ req.branch = "agent"
    /\ Parsed(req.response_content).tag = "ToolCall"
    /\ \A t \in ToolNames : Parsed(req.response_content).name # <<t>>

\* C8: when the tool name parsed from the reply equals no name of the tool
\* list, character for character, no handler runs and the store is left as
\* it was.
C8_UnresolvableTool ==
    [][NamesNoTool(last') => (last'.handler = "" /\ db' = db)]_vars

C8_Witness ==
    /\ NamesNoTool(last)
    /\ Parsed(last.response_content).name = <<"Update_Trip_Status">>
    /\ last.handler = ""
    /\ last.result = last.response_content

NoEdgeSpace(w) == w = <<>> \/ (~IsSpace(w[1]) /\ ~IsSpace(w[Len(w)]))

Values(pairs) == {pairs[i][2] : i \in 1..Len(pairs)}

Keys(pairs) == {pairs[i][1] : i \in 1..Len(pairs)}

ParsedBack ==
    /\ probe.call.tag = "ToolCall"
    /\ probe.call.name = probe.name
    /\ probe.call.params = ParamMap(probe.pairs)

\* C9: a tool name and a parameter map whose values hold no comma and no
\* "=", written in the wire format and parsed, come back as the same name
\* and the same map.
C9_RoundTrip ==
    (/\ probe.stage = "parsed"
     /\ \A v \in Values(probe.pairs) : ~Contains(v, COMMA) /\ ~Contains(v, EQ))
        => ParsedBack

\* C9 as amended: the round trip holds when, besides, no key holds a comma
\* or "=", the name does not hold "Tool:", no key or value holds
\* "Parameters:", and the name, the keys and the values hold no newline and
\* neither start nor end with white space.
C9_RoundTripTrimmed ==
    (/\ probe.stage = "parsed"
     /\ \A v \in Values(probe.pairs) : ~Contains(v, COMMA) /\ ~Contains(v, EQ)
     /\ \A k \in Keys(probe.pairs) : ~Contains(k, COMMA) /\ ~Contains(k, EQ)
     /\ ~Contains(probe.name, TOOL)
     /\ \A w \in Keys(probe.pairs) \cup Values(probe.pairs) : ~Contains(w, PARAMETERS)
     /\ \A w \in {probe.name} \cup Keys(probe.pairs) \cup Values(probe.pairs) :
           ~Contains(w, NL) /\ NoEdgeSpace(w))
        => ParsedBack

C9_Witness ==
    /\ probe.stage = "parsed"
    /\ probe.name = <<"a">>
    /\ probe.pairs = <<<<<<"a">>, <<>>>>, <<<<>>, <<"a">>>>>>
    /\ ParsedBack

\* The lines of a text that begin with a marker.
HasLineBeginning(lines, tok) ==
    \E i \in 1..Len(lines) : Len(lines[i]) >= 1 /\ lines[i][1] = tok

IsTurn(req) == req.op = "query_driver_agent"

TreatedAsPlainText(req) == req.handler = "" /\ req.result = req.response_content

\* C10: a reply that does not hold "Tool:", or has no line beginning with
\* "Tool:" or no line beginning with "Parameters:", is treated as plain text:
\* no handler runs and the turn returns the reply.
C10_ParserFallback ==
    (/\ IsTurn(last)
     /\ \/ ~Contains(last.response_content, TOOL)
        \/ ~HasLineBeginning(Split(last.response_content, NL), TOOL)
        \/ ~HasLineBeginning(Split(last.response_content, NL), PARAMETERS))
        => TreatedAsPlainText(last)

\* C10 as amended: the lines are those of the reply with the white space at
\* its start and end removed.
C10_ParserFallbackStripped ==
    (/\ IsTurn(last)
     /\ \/ ~Contains(last.response_content, TOOL)
        \/ ~HasLineBeginning(Split(Strip(last.response_content), NL), TOOL)
        \/ ~HasLineBeginning(Split(Strip(last.response_content), NL), PARAMETERS))
        => TreatedAsPlainText(last)

C10_Witness ==
    /\ IsTurn(last)
    /\ last.response_content = <<"x", TOOL, "get_current_trip", NL, PARAMETERS>>
    /\ TreatedAsPlainText(last)

(***************************************************************************)
(* Parameter errors, domain violations and rejected commits.               *)
(***************************************************************************)
\* float(value) succeeds: the declared type of latitude and longitude.
IsFloat(value) == value \in {<<"12.5">>, <<"7.5">>}

\* The tool the reply of a turn resolves to ("" when none).
ResolvedTool(req) ==
    IF req.branch = "agent" /\ Parsed(req.response_content).tag = "ToolCall"
    THEN FindTool(Parsed(req.response_content).name)
    ELSE ""

\* The parameters of the handler the call leaves out, and those whose value
\* is not of the declared type.
OffendingKeys(req) ==
    LET tool == ResolvedTool(req)
        params == Parsed(req.response_content).params
    IN  IF tool = ""
        THEN {}
        ELSE (_create_tools[tool].required \ DOMAIN params) \cup
             {key \in {<<"latitude">>, <<"longitude">>} \cap DOMAIN params :
                 tool = "update_location" /\ ~IsFloat(params[key])}

NamesField(text, key) == \E i \in 1..Len(text) : text[i] = key[1]

\* C11: a tool call that leaves out a required parameter, or gives a value
\* that is not of the declared type, is answered with a text that names the
\* parameter, and the store is left as it was.
C11_ParameterErrors ==
    [][\A key \in OffendingKeys(last') :
          NamesField(last'.result, key) /\ db' = db]_vars

\* The request runs into a domain violation in the store d: a driver tool
\* called by a driver with no active trip, resolve_issue on an issue that
\* does not exist or is resolved already, send_message_to_driver on a trip
\* that does not exist or has no driver.
DomainViolation(req, d) ==
    \/ /\ ResolvedTool(req) \in
              {"get_current_trip", "update_trip_status", "report_issue", "update_location"}
       /\ Binds(ResolvedTool(req), Parsed(req.response_content).params)
       /\ ActiveTrip(d, req.user_id) = 0
    \/ /\ req.handler = "resolve_issue"
       /\ \/ IssueById(d, req.issue_id) = 0
          \/ d.issues[req.issue_id].status = "resolved"
    \/ /\ req.handler = "send_message_to_driver"
       /\ \/ TripById(d, req.trip_id) = 0
          \/ d.trips[req.trip_id].driver_id = 0

\* C12: a domain violation inside a handler comes back as the text of the
\* turn: the handler does not raise and the turn does not end with the
\* generic failure notice, whatever the store would answer to a commit.
C12_DomainViolationIsText ==
    [][DomainViolation(last', db)
          => /\ ~last'.raised
             /\ last'.result # <<>>
             /\ last'.result # ErrorNotice]_vars

C12_Witness ==
    /\ last.handler = "resolve_issue"
    /\ last.issue_id = 1
    /\ last.result = IssueNo(1) \o <<" is already resolved.">>
    /\ ~last.raised

\* C13: a handler that makes several writes stores all of them or none:
\* report_issue its Issue, Trip status and StatusUpdate; resolve_issue the
\* resolved Issue and the driver's Notification; create_new_trip the Trip
\* and the driver's Notification.
C13_AllOrNothing ==
    [][/\ last'.handler = "report_issue"
          => \/ db' = db
             \/ /\ Len(db'.issues) = Len(db.issues) + 1
                /\ Len(db'.status_updates) = Len(db.status_updates) + 1
                /\ db'.trips[last'.trip_id].status = "issue_reported"
       /\ (/\ last'.handler = "resolve_issue"
           /\ IssueById(db, last'.issue_id) # 0
           /\ TripById(db, last'.trip_id) # 0
           /\ db.trips[last'.trip_id].driver_id # 0)
          => (db'.issues # db.issues <=> db'.notifications # db.notifications)
       /\ last'.handler = "create_new_trip"
          => (db'.trips # db.trips <=> db'.notifications # db.notifications)]_vars

\* The driver tool of the turn reached its db.commit() and the store
\* rejected it.
CommitRejected(req, d) ==
    /\ req.branch = "agent"
    /\ ~req.commit_ok
    /\ ReachesCommit(d, req.user_id, req.response_content)

IsPrefix(s, t) == Len(s) <= Len(t) /\ SubSeq(t, 1, Len(s)) = s

\* C15: the session of a principal survives from one turn to the next: the
\* entries the session held at the end of a turn are still in it, in front
\* of the new ones, at the end of the next turn of the same principal.
C15_SessionSurvives ==
    [][(/\ last.branch = "agent"
        /\ last'.branch = "agent"
        /\ last'.user_id = last.user_id)
          => IsPrefix(last.memory, last'.memory)]_vars

\* The chat update changed or confirmed the state of a trip and told its
\* stakeholders.
NotifiesStakeholders(req, d) ==
    /\ req.branch \in {"status_button", "on_schedule", "awaiting_issue"}
    /\ ~req.raised
    /\ TripById(d, req.trip_id) # 0

\* C16: the users notified of a trip's state change are exactly the trip's
\* non-null manager, shipper and consignee without the actor; the driver is
\* not among them and each of them gets exactly one Notification.
C16_NotifiedSet ==
    [][NotifiesStakeholders(last', db)
          => LET trip == db.trips[last'.trip_id]
                 new == NewRows(db.notifications, db'.notifications)
                 expected == ({trip.manager_id, trip.shipper_id, trip.consignee_id}
                                 \ {0}) \ {last'.user_id}
             IN  /\ {new[i].user_id : i \in 1..Len(new)} = expected
                 /\ trip.driver_id \notin expected
                 /\ \A u \in expected :
                       Len(SelectSeq(new, LAMBDA n : n.user_id = u)) = 1]_vars

\* The step ran resolve_issue on an issue of the store d that is not resolved.
ResolvesOpenIssue(req, d) ==
    /\ req.handler = "resolve_issue"
    /\ IssueById(d, req.issue_id) # 0
    /\ d.issues[req.issue_id].status # "resolved"

\* C17: resolve_issue on an issue that is not resolved leaves every Trip and
\* the StatusUpdate history as they were; when it returns, the issue is
\* resolved with resolved_at set, no other issue has changed, and one
\* Notification for the driver of the issue's trip has been added when that
\* trip exists and has a driver.
C17_ResolveIssueFrame ==
    [][ResolvesOpenIssue(last', db)
          => LET i == last'.issue_id
                 trip == TripById(db, db.issues[i].trip_id)
             IN  /\ db'.trips = db.trips
                 /\ db'.status_updates = db.status_updates
                 /\ ~last'.raised
                    => /\ db'.issues =
                              [db.issues EXCEPT ![i].status = "resolved",
                                                 ![i].resolved_at = TRUE]
                       /\ db'.notifications =
                              IF trip # 0 /\ db.trips[trip].driver_id # 0
                              THEN Append(db.notifications,
                                       Notification(db.trips[trip].driver_id, trip,
                                           <<"Your reported issue has been resolved: ">>
                                               \o db.issues[i].description))
                              ELSE db.notifications]_vars

C17_Witness ==
    /\ last.handler = "resolve_issue"
    /\ ~last.raised
    /\ IssueById(db, last.issue_id) # 0
    /\ db.issues[last.issue_id].status = "resolved"
    /\ db.issues[last.issue_id].resolved_at
    /\ TripById(db, db.issues[last.issue_id].trip_id) # 0
    /\ db.trips[db.issues[last.issue_id].trip_id].status = "issue_reported"
    /\ db.notifications[Len(db.notifications)].user_id = 1

\* C18: every Issue is created open; an Issue that is resolved never
\* changes again (a second resolve_issue returns the already-resolved text
\* and writes nothing); and resolved_at is set exactly when the status is
\* resolved.
C18_IssueLifecycle ==
    [][/\ Len(db'.issues) >= Len(db.issues)
       /\ \A i \in 1..Len(db.issues) :
             db.issues[i].status = "resolved" => db'.issues[i] = db.issues[i]
       /\ \A i \in (Len(db.issues) + 1)..Len(db'.issues) :
             db'.issues[i].status = "open"
       /\ \A i \in 1..Len(db'.issues) :
             /\ db'.issues[i].status \in {"open", "resolved"}
             /\ db'.issues[i].resolved_at <=> db'.issues[i].status = "resolved"
       /\ (/\ last'.handler = "resolve_issue"
           /\ IssueById(db, last'.issue_id) # 0
           /\ db.issues[last'.issue_id].status = "resolved")
          => /\ db' = db
             /\ last'.result = IssueNo(last'.issue_id) \o <<" is already resolved.">>]_vars

C18_Witness ==
    /\ last.handler = "resolve_issue"
    /\ IssueById(db, last.issue_id) # 0
    /\ db.issues[last.issue_id].status = "resolved"
    /\ db.issues[last.issue_id].resolved_at
    /\ last.result = IssueNo(last.issue_id) \o <<" is already resolved.">>
    /\ Len(db.issues) > Len(create_test_data.issues)

LocationsOf(d, trip_id) ==
    SelectSeq(d.locations, LAMBDA row : row.trip_id = trip_id)

\* C19: no operation removes a Trip, and StatusUpdate and Location rows are
\* append-only: after every step the trips, and each trip's StatusUpdate and
\* Location history, hold everything they held before, unmodified.
C19_AppendOnly ==
    [][/\ Len(db'.trips) >= Len(db.trips)
       /\ \A t \in Trips(db) :
             /\ IsPrefix(UpdatesOf(db, t), UpdatesOf(db', t))
             /\ IsPrefix(LocationsOf(db, t), LocationsOf(db', t))
       /\ IsPrefix(db.status_updates, db'.status_updates)
       /\ IsPrefix(db.locations, db'.locations)]_vars

C19_Witness ==
    /\ Len(db.trips) > Len(create_test_data.trips)
    /\ Len(db.locations) > Len(create_test_data.locations)
    /\ Len(db.status_updates) > Len(create_test_data.status_updates)
    /\ IsPrefix(create_test_data.locations, db.locations)
    /\ IsPrefix(create_test_data.status_updates, db.status_updates)

\* C20: in every reachable state the status of every Trip and of every
\* StatusUpdate is one of the nine status strings.
C20_StatusVocabulary ==
    /\ \A t \in Trips(db) : db.trips[t].status \in TripStatus
    /\ \A i \in 1..Len(db.status_updates) : db.status_updates[i].status \in TripStatus

(***************************************************************************)
(* C21: a tool call on a trip the actor is not a party to is refused.      *)
(***************************************************************************)
\* The turn names a trip (or an issue of a trip) that exists and that the
\* acting manager does not manage, the acting shipper does not ship.
NotAParty(req, d) ==
    /\ req.handler \in {"send_message_to_driver", "resolve_issue"}
    /\ TripById(d, req.trip_id) # 0
    /\ \/ /\ req.op = "query_manager_agent"
          /\ d.trips[req.trip_id].manager_id # req.user_id
       \/ /\ req.op = "query_shipper_agent"
          /\ d.trips[req.trip_id].shipper_id # req.user_id

\* The turn ends with a text that is not one of the success texts.
Refuses(req) ==
    /\ req.result # <<>>
    /\ req.result[1] # "Message sent to the driver of "
    /\ req.result[Len(req.result)] # " has been marked as resolved."

\* C21: a manager or shipper tool call that names a trip, or an issue of a
\* trip, to which the actor is not a party leaves every table as it was (no
\* Notification is created, no Issue is resolved) and, unless the store
\* failed under it, returns a refusal text.
C21_Unauthorized ==
    [][NotAParty(last', db) => (db' = db /\ (last'.raised \/ Refuses(last')))]_vars

(***************************************************************************)
(* C22: the lifecycle order is not enforced.                               *)
(***************************************************************************)
\* The driver tool is asked for one of the TripStatus values while the
\* driver's current trip is not completed, and the store accepts the commit.
AsksTransition(req, d) ==
    /\ req.op = "query_driver_agent"
    /\ req.handler = "update_trip_status"
    /\ Len(req.status) = 1
    /\ req.status[1] \in TripStatus
    /\ req.trip_id # 0
    /\ d.trips[req.trip_id].status # "completed"
    /\ req.commit_ok

Accepted(from, to) ==
    /\ last.op = "query_driver_agent"
    /\ last.handler = "update_trip_status"
    /\ last.trip_id # 0
    /\ last.status = <<to>>
    /\ db.trips[last.trip_id].status = to
    /\ Len(db.status_updates) >= 2
    /\ db.status_updates[Len(db.status_updates) - 1].status = from
    /\ db.status_updates[Len(db.status_updates)].status = to

UserEntry(req) == Message("user", req.text)

AssistantEntry(req) == Message("assistant", req.response_content)

ToolResultEntry(req) == Message("system", <<"Tool result: ">> \o req.result)

\* C23: a driver turn that dispatches a tool adds exactly the entries user,
\* assistant, system (the tool result) in that order and returns the
\* handler's result; a turn that dispatches none adds exactly user,
\* assistant and returns the reply.
C23_SessionEntries ==
    [][last'.branch = "agent" =>
          IF ResolvedTool(last') # ""
          THEN /\ last'.memory = <<UserEntry(last'), AssistantEntry(last'),
                                   ToolResultEntry(last')>>
               /\ last'.result # ErrorNotice
          ELSE /\ last'.memory = <<UserEntry(last'), AssistantEntry(last')>>
               /\ last'.result = last'.response_content]_vars

(***************************************************************************)
(* C24: the window of the session that is replayed into the model call.    *)
(***************************************************************************)
\* C24: the messages of a model call are the system message followed by the
\* last min(10, n) entries of the n-entry session, in their order, the
\* user message of the turn being the last of them; and the turn leaves the
\* entries the session had in place, in front of the new ones.
C24_ReplayWindow ==
    [][last'.op = "process_message" =>
          LET session == Append(agent.memory, UserEntry(last'))
              n == Len(session)
              k == IF n < 10 THEN n ELSE 10
              messages == last'.messages
          IN  /\ Len(messages) = k + 1
              /\ messages[1] = SystemMessage
              /\ \A i \in 1..k : messages[1 + i] = session[n - k + i]
              /\ messages[k + 1] = UserEntry(last')
              /\ IsPrefix(session, agent'.memory)]_vars

\* A model call on a session of more than ten entries: the oldest are not
\* replayed and are still in the session.
C24_Witness ==
    /\ last.op = "process_message"
    /\ Len(agent.memory) > 12
    /\ Len(last.messages) = 11
    /\ last.messages[11] = UserEntry(last)
    /\ last.messages[2] # agent.memory[1]
    /\ agent.memory[1].role = "user"

(***************************************************************************)
(* C25: a tool name that is not in the tool list.                          *)
(***************************************************************************)
\* C25: when the parsed tool name is not in the tool list the turn does not
\* fail: it returns the reply of the model as it is, and the session gains
\* the user and the assistant entry of the turn and nothing else.
C25_UnknownToolFallback ==
    [][(last'.op = "process_message" /\ NamesNoTool(last')) =>
          /\ last'.result = last'.response_content
          /\ last'.result # ErrorNotice
          /\ agent'.memory =
                 agent.memory \o <<UserEntry(last'), AssistantEntry(last')>>]_vars

\* A turn that ran a tool is followed by one that names check_weather.
C25_Witness ==
    /\ last.op = "process_message"
    /\ last.response_content = ToolCallText("check_weather", <<>>)
    /\ last.result = last.response_content
    /\ Len(agent.memory) = 5
    /\ agent.memory[3].role = "system"
    /\ agent.memory[5] = AssistantEntry(last)

(***************************************************************************)
(* C26: create_new_trip without a driver_id.                               *)
(***************************************************************************)
\* The drivers that have no trip in one of the statuses the handler lists.
FreeDrivers(d) ==
    {u \in Drivers(d) :
        \A t \in Trips(d) :
           d.trips[t].driver_id = u
              => d.trips[t].status \notin {"assigned", "loading", "unloading"}}

\* C26: create_new_trip with the three required fields and no driver_id
\* does not raise: it creates exactly one Trip, with status assigned and the
\* calling manager as manager, assigned to a driver without an active trip
\* if there is one and to no driver otherwise, and returns a success text.
C26_CreateTripWithoutDriver ==
    [][(/\ last'.handler = "create_new_trip"
        /\ last'.input[1] # <<>>
        /\ last'.input[2] = 0) =>
          /\ ~last'.raised
          /\ Len(db'.trips) = Len(db.trips) + 1
          /\ db'.trips[Len(db'.trips)].status = "assigned"
          /\ db'.trips[Len(db'.trips)].manager_id = last'.user_id
          /\ IF FreeDrivers(db) = {}
             THEN db'.trips[Len(db'.trips)].driver_id = 0
             ELSE db'.trips[Len(db'.trips)].driver_id \in FreeDrivers(db)
          /\ last'.result # <<>>
          /\ last'.result[1] = "Success: New trip created with ID #"]_vars

(***************************************************************************)
(* C27: the audit trail agrees with the trip.                              *)
(***************************************************************************)
\* C27: for every trip that has a StatusUpdate, the status of the one
\* written last is the status of the trip.
C27_LatestUpdateIsTripStatus ==
    \A t \in Trips(db) :
       UpdatesOf(db, t) # <<>>
          => UpdatesOf(db, t)[Len(UpdatesOf(db, t))].status = db.trips[t].status

\* C27, for confirm_trip alone: a confirmation that writes its StatusUpdate
\* leaves the latest StatusUpdate of the trip with the status of the trip.
C27_ConfirmTripAgrees ==
    [][(last'.op = "confirm_trip" /\ db'.status_updates # db.status_updates) =>
          db'.status_updates[Len(db'.status_updates)].status =
              db'.trips[last'.trip_id].status]_vars

(***************************************************************************)
(* C28: two requests on the same trip at the same time.                    *)
(***************************************************************************)
\* The request has finished and reported success.
Succeeded(req) == req.pc = "done" /\ req.trip # 0

\* C28: whatever the interleaving of the two requests, no step moves a trip
\* out of completed (a request that read the trip before the other one
\* committed completed does not overwrite it), and each step appends as many
\* StatusUpdates as requests report success in it.
C28_ConcurrentTransitions ==
    [][/\ \A t \in Trips(db) :
             db.trips[t].status = "completed" => db'.trips[t].status = "completed"
       /\ Len(db'.status_updates) - Len(db.status_updates) =
              Cardinality({r \in 1..2 : Succeeded(requests'[r]) /\ ~Succeeded(requests[r])})]_vars

(***************************************************************************)
(* C29: the pending-issue flag of the chat flow.                           *)
(***************************************************************************)
\* The chat update was handled by one of the quick-reply buttons.
HandledAsButton(req) ==
    req.branch \in {"status_button", "on_schedule", "report_issue_button",
                    "trip_details", "share_location"}

\* The rows the step added to the issue table are exactly one open Issue of
\* the user on the trip, described by the text of the message.
OneOpenIssueOn(trip_id, req, before, after) ==
    /\ Extends(before.issues, after.issues)
    /\ NewRows(before.issues, after.issues) =
           <<Issue(trip_id, req.user_id, req.text, "open")>>

\* C29 as stated: a press of Report Issue stores the trip active at the
\* press and creates no Issue; the next text that is not handled as a button
\* creates exactly one open Issue on the stored trip and clears the flag;
\* with no flag pending a text that is not a button goes to the agent and
\* creates no Issue.
C29_PendingIssueFlag ==
    [][last'.op = "handle_text_message"
          => LET u == last'.user_id
             IN  /\ last'.branch = "report_issue_button"
                    => /\ user_data'[u].awaiting_issue = ActiveTrip(db, u)
                       /\ ActiveTrip(db, u) # 0
                       /\ db'.issues = db.issues
                 /\ (~HandledAsButton(last') /\ user_data[u].awaiting_issue # 0)
                    => /\ OneOpenIssueOn(user_data[u].awaiting_issue, last', db, db')
                       /\ user_data'[u].awaiting_issue = 0
                 /\ (~HandledAsButton(last') /\ user_data[u].awaiting_issue = 0)
                    => /\ last'.branch = "agent"
                       /\ db'.issues = db.issues]_vars

\* C29, amended: a press of Report Issue stores the trip active at the press
\* and creates no Issue; the next text that is not handled as a button
\* creates exactly one open Issue on the stored trip and clears the flag when
\* the store accepts the commit, and creates no Issue and leaves the flag as
\* it was when the store rejects it; with no flag pending a text that is not
\* a button goes to the agent, and the turn adds an Issue, one at most, only
\* by running the agent's report_issue tool.
C29_PendingIssueFlagAmended ==
    [][last'.op = "handle_text_message"
          => LET u == last'.user_id
             IN  /\ last'.branch = "report_issue_button"
                    => /\ user_data'[u].awaiting_issue = ActiveTrip(db, u)
                       /\ ActiveTrip(db, u) # 0
                       /\ db'.issues = db.issues
                 /\ (~HandledAsButton(last') /\ user_data[u].awaiting_issue # 0)
                    => /\ last'.branch = "awaiting_issue"
                       /\ IF last'.commit_ok
                          THEN /\ OneOpenIssueOn(user_data[u].awaiting_issue, last', db, db')
                               /\ user_data'[u].awaiting_issue = 0
                          ELSE /\ db'.issues = db.issues
                               /\ user_data'[u].awaiting_issue = user_data[u].awaiting_issue
                 /\ (~HandledAsButton(last') /\ user_data[u].awaiting_issue = 0)
                    => /\ last'.branch = "agent"
                       /\ Extends(db.issues, db'.issues)
                       /\ Len(db'.issues) <= Len(db.issues) + 1
                       /\ db'.issues # db.issues => last'.handler = "report_issue"]_vars

\* A description sent after a press of Report Issue has become an Issue and
\* the flag is cleared.
C29_Witness ==
    /\ last.branch = "awaiting_issue"
    /\ ~last.raised
    /\ user_data[last.user_id].awaiting_issue = 0
    /\ Len(db.issues) > 0
    /\ db.issues[Len(db.issues)] = Issue(last.trip_id, last.user_id, last.text, "open")

(***************************************************************************)
(* C30: /start after the role was set.                                     *)
(***************************************************************************)
\* C30: a /start of a user whose data record role_set (after /set_role or a
\* set_role_ callback) shows the welcome of the registered role, not the
\* role keyboard.
C30_StartAfterRoleSet ==
    [][(last'.op = "start" /\ user_data[last'.user_id].role_set)
          => /\ last'.branch = "welcome"
             /\ last'.result = Welcome(db.users[last'.user_id])]_vars

====
